---- MODULE Spec2Model ----
(***************************************************************************)
(* T2-Tarkov-Toolbox, local map module: layer resolution                   *)
(* (models.py), map configuration mutators (config_manager.py, ui.py) and  *)
(* the transform cache (map_resource_cache.py).                            *)
(*                                                                         *)
(* Optional values are sequences of length at most one: None is <<>> and   *)
(* Some(v) is <<v>>.  Map-pixel positions produced by a transform are      *)
(* exact rationals, kept as numerators over a common positive denominator. *)
(***************************************************************************)
EXTENDS Integers, Sequences, FiniteSets, TLC

VARIABLES
    maps,             \* MapConfigManager.maps: map_id -> MapConfig.layers
    transform_cache,  \* MapResourceCache._transform_cache, in insertion order
    shot,             \* outcome of the last position event handled
    pc,               \* per thread: position inside get_transform
    call,             \* per thread: arguments and locals of get_transform
    validation,       \* the last region validation or region save, and its outcome
    applied,          \* the last function applied on its own, and what it returned
    hist              \* the last return of get_transform, and observations

vars == <<maps, transform_cache, shot, pc, call, validation, applied, hist>>

None == <<>>
Some(v) == <<v>>

Min(S) == CHOOSE m \in S : \A o \in S : m <= o
Abs(n) == IF n < 0 THEN -n ELSE n

RECURSIVE SumSeq(_)
SumSeq(s) == IF s = <<>> THEN 0 ELSE Head(s) + SumSeq(Tail(s))

RECURSIVE Gcd(_, _)
Gcd(m, n) == IF n = 0 THEN Abs(m) ELSE Gcd(n, m % n)

(***************************************************************************)
(* Bounds of the model.                                                    *)
(***************************************************************************)
\* most layers a stored map holds
MaxLayers == 2

LayerIds == {0, 1, 2}
MapIds == {"bigmap", "Woods"}

\* height ranges offered by the layer dialog (height_min < height_max)
HeightRanges == {<<0, 3>>, <<3, 6>>}

\* two disjoint polygons on the base map's pixel plane
R_A == <<<<0, 0>>, <<2, 0>>, <<2, 2>>, <<0, 2>>>>
R_B == <<<<3, 0>>, <<5, 0>>, <<5, 2>>, <<3, 2>>>>
Regions == {R_A, R_B}

Position3D(x, y, z) == [x |-> x, y |-> y, z |-> z]
CalibrationPoint(gx, gy, gz, mx, my) ==
    [game_pos |-> Position3D(gx, gy, gz), map_x |-> mx, map_y |-> my]

\* three calibration points of the map-pixel plane's own frame
Cal3 == << CalibrationPoint(0, 0, 0, 0, 0),
           CalibrationPoint(4, 0, 0, 4, 0),
           CalibrationPoint(0, 0, 4, 0, 4) >>

(***************************************************************************)
(* models.py: Region                                                       *)
(***************************************************************************)
MapPos(x, y) == [x |-> x, y |-> y, den |-> 1]

\* a variant of the pass that leaves out the test map_x <= max(p1x, p2x)
edge_toggles_without_x_bound(points, i, p) ==
    LET n == Len(points)
        p1x == points[i][1]
        p1y == points[i][2]
        p2x == points[(i % n) + 1][1]
        p2y == points[(i % n) + 1][2]
        miny == IF p1y < p2y THEN p1y ELSE p2y
        maxy == IF p1y > p2y THEN p1y ELSE p2y
        dy == p2y - p1y
        lhs == (p.x - p.den * p1x) * dy
        rhs == (p.y - p.den * p1y) * (p2x - p1x)
    IN  /\ p.y > p.den * miny
        /\ p.y <= p.den * maxy
        /\ \/ p1x = p2x
           \/ IF dy > 0 THEN lhs <= rhs ELSE lhs >= rhs

\* One pass of the ray-casting loop of Region.contains_point, for the edge
\* from points[i] to points[(i % n) + 1].  The point is (p.x/p.den, p.y/p.den)
\* with p.den > 0; every comparison of the source is scaled by p.den, and
\* map_x <= xinters is cross-multiplied by (p2y - p1y), which is non-zero
\* whenever the two height tests on map_y both pass.
edge_toggles(points, i, p) ==
    LET n == Len(points)
        p1x == points[i][1]
        p1y == points[i][2]
        p2x == points[(i % n) + 1][1]
        p2y == points[(i % n) + 1][2]
        miny == IF p1y < p2y THEN p1y ELSE p2y
        maxy == IF p1y > p2y THEN p1y ELSE p2y
        maxx == IF p1x > p2x THEN p1x ELSE p2x
        dy == p2y - p1y
        lhs == (p.x - p.den * p1x) * dy
        rhs == (p.y - p.den * p1y) * (p2x - p1x)
    IN  /\ p.y > p.den * miny
        /\ p.y <= p.den * maxy
        /\ p.x <= p.den * maxx
        /\ \/ p1x = p2x
           \/ IF dy > 0 THEN lhs <= rhs ELSE lhs >= rhs

RECURSIVE ray_cast(_, _, _, _)
ray_cast(points, p, i, inside) ==
    IF i > Len(points) THEN inside
    ELSE ray_cast(points, p, i + 1,
                  IF edge_toggles(points, i, p) THEN ~inside ELSE inside)

contains_point(points, p) ==
    IF Len(points) < 3 THEN FALSE ELSE ray_cast(points, p, 1, FALSE)

(***************************************************************************)
(* models.py: CoordinateTransform                                          *)
(***************************************************************************)
\* a..f are numerators over the common denominator den > 0
CoordinateTransform(a, b, c, d, e, f, den) ==
    [a |-> a, b |-> b, c |-> c, d |-> d, e |-> e, f |-> f, den |-> den]

\* a variant that reads the height y where the source reads z
transform_height_for_z(t, game_pos) ==
    [x |-> t.a * game_pos.x + t.b * game_pos.y + t.c,
     y |-> t.d * game_pos.x + t.e * game_pos.y + t.f,
     den |-> t.den]

transform(t, game_pos) ==
    [x |-> t.a * game_pos.x + t.b * game_pos.z + t.c,
     y |-> t.d * game_pos.x + t.e * game_pos.z + t.f,
     den |-> t.den]

(***************************************************************************)
(* models.py: MapLayer                                                     *)
(***************************************************************************)
MapLayer(id, hmin, hmax, cal, base, region, owner) ==
    [layer_id |-> id, height_min |-> hmin, height_max |-> hmax,
     calibration_points |-> cal, is_base_map |-> base,
     region |-> region, region_owner_layer_id |-> owner]

contains_height(layer, y) == layer.height_min <= y /\ y <= layer.height_max

is_calibrated(layer) == Len(layer.calibration_points) >= 3

\* MapConfig.get_layer_by_id: the first layer of the list with that id
get_layer_by_id(layers, layer_id) ==
    LET hits == {i \in 1..Len(layers) : layers[i].layer_id = layer_id}
    IN  IF hits = {} THEN None ELSE Some(layers[Min(hits)])

get_effective_region(layer, layers) ==
    IF layer.region # None THEN layer.region
    ELSE IF layer.region_owner_layer_id # None
    THEN LET owner_layer == get_layer_by_id(layers, layer.region_owner_layer_id[1])
         IN  IF owner_layer # None /\ owner_layer[1].region # None
             THEN owner_layer[1].region
             ELSE None
    ELSE None

is_region_owner(layer) ==
    layer.region # None /\ layer.region_owner_layer_id = None

\* a variant that lets height alone decide when no base-map position is
\* supplied
is_activated_height_without_position(layer, player_pos, player_map_pos, map_config) ==
    IF layer.is_base_map THEN TRUE
    ELSE LET effective_region ==
                 IF map_config # None
                 THEN get_effective_region(layer, map_config[1])
                 ELSE layer.region
         IN  IF effective_region = None \/ player_map_pos = None
             THEN contains_height(layer, player_pos.y)
             ELSE /\ contains_height(layer, player_pos.y)
                  /\ contains_point(effective_region[1], player_map_pos[1])

\* map_config is Some(layers) or None (the parameter's default)
is_activated(layer, player_pos, player_map_pos, map_config) ==
    IF layer.is_base_map THEN TRUE
    ELSE LET effective_region ==
                 IF map_config # None
                 THEN get_effective_region(layer, map_config[1])
                 ELSE layer.region
         IN  IF effective_region = None
             THEN contains_height(layer, player_pos.y)
             ELSE IF ~contains_height(layer, player_pos.y) THEN FALSE
             ELSE IF player_map_pos = None THEN FALSE
             ELSE contains_point(effective_region[1], player_map_pos[1])

(***************************************************************************)
(* models.py: MapConfig                                                    *)
(***************************************************************************)
get_base_map(layers) ==
    LET hits == {i \in 1..Len(layers) : layers[i].is_base_map}
    IN  IF hits = {} THEN None ELSE Some(layers[Min(hits)])

get_floor_maps(layers) == SelectSeq(layers, LAMBDA l : ~l.is_base_map)

\* sorted(..., key=height_max, reverse=True): a stable sort, so layers of
\* equal height_max keep the order they have in the list
RECURSIVE insert_by_height_max(_, _)
insert_by_height_max(sorted, layer) ==
    IF sorted = <<>> THEN <<layer>>
    ELSE IF Head(sorted).height_max >= layer.height_max
    THEN <<Head(sorted)>> \o insert_by_height_max(Tail(sorted), layer)
    ELSE <<layer>> \o sorted

RECURSIVE sorted_by_height_max(_, _)
sorted_by_height_max(sorted, rest) ==
    IF rest = <<>> THEN sorted
    ELSE sorted_by_height_max(insert_by_height_max(sorted, Head(rest)), Tail(rest))

\* a variant that answers with the base layer before it looks at the floors
get_active_layer_base_first(layers, player_pos, base_map_transform) ==
    LET player_map_pos ==
            IF base_map_transform # None
            THEN Some(transform(base_map_transform[1], player_pos))
            ELSE None
        floor_maps == sorted_by_height_max(<<>>, get_floor_maps(layers))
        activated == {i \in 1..Len(floor_maps) :
                         is_activated(floor_maps[i], player_pos, player_map_pos,
                                      Some(layers))}
        base_map == get_base_map(layers)
    IN  IF base_map # None THEN base_map
        ELSE IF activated # {} THEN Some(floor_maps[Min(activated)])
        ELSE IF layers # <<>> THEN Some(layers[1])
        ELSE None

get_active_layer(layers, player_pos, base_map_transform) ==
    LET player_map_pos ==
            IF base_map_transform # None
            THEN Some(transform(base_map_transform[1], player_pos))
            ELSE None
        floor_maps == sorted_by_height_max(<<>>, get_floor_maps(layers))
        activated == {i \in 1..Len(floor_maps) :
                         is_activated(floor_maps[i], player_pos, player_map_pos,
                                      Some(layers))}
        base_map == get_base_map(layers)
    IN  IF activated # {} THEN Some(floor_maps[Min(activated)])
        ELSE IF base_map # None THEN base_map
        ELSE IF layers # <<>> THEN Some(layers[1])
        ELSE None

\* layers.append(layer); layers.sort(key=layer_id): a stable sort of the
\* whole list, whatever order it was in
RECURSIVE insert_by_layer_id(_, _)
insert_by_layer_id(sorted, layer) ==
    IF sorted = <<>> THEN <<layer>>
    ELSE IF Head(sorted).layer_id <= layer.layer_id
    THEN <<Head(sorted)>> \o insert_by_layer_id(Tail(sorted), layer)
    ELSE <<layer>> \o sorted

RECURSIVE sorted_by_layer_id(_, _)
sorted_by_layer_id(sorted, rest) ==
    IF rest = <<>> THEN sorted
    ELSE sorted_by_layer_id(insert_by_layer_id(sorted, Head(rest)), Tail(rest))

add_layer(layers, layer) == sorted_by_layer_id(<<>>, Append(layers, layer))

(***************************************************************************)
(* coordinate_transform.py                                                 *)
(***************************************************************************)
Det3(r1, r2, r3) ==
    r1[1] * (r2[2] * r3[3] - r2[3] * r3[2])
    - r1[2] * (r2[1] * r3[3] - r2[3] * r3[1])
    + r1[3] * (r2[1] * r3[2] - r2[2] * r3[1])

\* np.linalg.lstsq on a rank-deficient design matrix (collinear game
\* positions) raises nothing: it returns the minimum-norm solution.  Its
\* coefficients are not computed here; the value records that a transform,
\* not an error, comes back.
lstsq_rank_deficient(points) == [rank_deficient |-> TRUE, points |-> points]

\* Cramer's rule: the determinant of the normal matrix (rows r1, r2, r3)
\* with its column k replaced by the right-hand side u
cramer_numerator(u, r1, r2, r3, k) ==
    Det3(IF k = 1 THEN <<u[1], r1[2], r1[3]>>
         ELSE IF k = 2 THEN <<r1[1], u[1], r1[3]>>
         ELSE <<r1[1], r1[2], u[1]>>,
         IF k = 1 THEN <<u[2], r2[2], r2[3]>>
         ELSE IF k = 2 THEN <<r2[1], u[2], r2[3]>>
         ELSE <<r2[1], r2[2], u[2]>>,
         IF k = 1 THEN <<u[3], r3[2], r3[3]>>
         ELSE IF k = 2 THEN <<r3[1], u[3], r3[3]>>
         ELSE <<r3[1], r3[2], u[3]>>)

\* a variant that hands the two offsets to the wrong axes
reduced_transform_offsets_swapped(a, b, c, d, e, f, den) ==
    LET g == Gcd(a, Gcd(b, Gcd(c, Gcd(d, Gcd(e, Gcd(f, den))))))
    IN  CoordinateTransform(a \div g, b \div g, f \div g,
                            d \div g, e \div g, c \div g, den \div g)

\* the six coefficients a/den .. f/den with the seven integers reduced by
\* their gcd
reduced_transform(a, b, c, d, e, f, den) ==
    LET g == Gcd(a, Gcd(b, Gcd(c, Gcd(d, Gcd(e, Gcd(f, den))))))
    IN  CoordinateTransform(a \div g, b \div g, c \div g,
                            d \div g, e \div g, f \div g, den \div g)

\* the solution of the normal equations with rows r1, r2, r3 and right-hand
\* sides ux (for map_x) and uy (for map_y); D is their determinant
solve_normal_equations(points, r1, r2, r3, ux, uy, D) ==
    IF D = 0 THEN lstsq_rank_deficient(points)
    ELSE reduced_transform(cramer_numerator(ux, r1, r2, r3, 1),
                           cramer_numerator(ux, r1, r2, r3, 2),
                           cramer_numerator(ux, r1, r2, r3, 3),
                           cramer_numerator(uy, r1, r2, r3, 1),
                           cramer_numerator(uy, r1, r2, r3, 2),
                           cramer_numerator(uy, r1, r2, r3, 3), D)

\* one normal equation <<coefficient of a|d, of b|e, of c|f, right-hand side
\* for map_x, right-hand side for map_y>> divided by the gcd of its five
\* integers: the same equation, in smaller numbers
reduce_equation(eq) ==
    LET g == Gcd(eq[1], Gcd(eq[2], Gcd(eq[3], Gcd(eq[4], eq[5]))))
    IN  IF g = 0 THEN eq ELSE [k \in 1..5 |-> eq[k] \div g]

solve_equations(points, eq1, eq2, eq3) ==
    solve_normal_equations(points,
                           <<eq1[1], eq1[2], eq1[3]>>,
                           <<eq2[1], eq2[2], eq2[3]>>,
                           <<eq3[1], eq3[2], eq3[3]>>,
                           <<eq1[4], eq2[4], eq3[4]>>,
                           <<eq1[5], eq2[5], eq3[5]>>,
                           Det3(<<eq1[1], eq1[2], eq1[3]>>,
                                <<eq2[1], eq2[2], eq2[3]>>,
                                <<eq3[1], eq3[2], eq3[3]>>))

\* _calculate_basic_transform: least squares of [game_x, game_z, 1] against
\* map_x and against map_y, solved exactly through the normal equations
\* (Cramer's rule); the seven integers are reduced by their gcd.
calculate_basic_transform(points) ==
    LET n == Len(points)
        X == [i \in 1..n |-> points[i].game_pos.x]
        Z == [i \in 1..n |-> points[i].game_pos.z]
        U == [i \in 1..n |-> points[i].map_x]
        V == [i \in 1..n |-> points[i].map_y]
    IN  solve_equations(points,
            reduce_equation(<<SumSeq([i \in 1..n |-> X[i] * X[i]]),
                              SumSeq([i \in 1..n |-> X[i] * Z[i]]), SumSeq(X),
                              SumSeq([i \in 1..n |-> X[i] * U[i]]),
                              SumSeq([i \in 1..n |-> X[i] * V[i]])>>),
            reduce_equation(<<SumSeq([i \in 1..n |-> X[i] * Z[i]]),
                              SumSeq([i \in 1..n |-> Z[i] * Z[i]]), SumSeq(Z),
                              SumSeq([i \in 1..n |-> Z[i] * U[i]]),
                              SumSeq([i \in 1..n |-> Z[i] * V[i]])>>),
            reduce_equation(<<SumSeq(X), SumSeq(Z), n, SumSeq(U), SumSeq(V)>>))

\* the weighted and the RANSAC fit: the method and the points it is given
calculate_weighted_transform(points) == [method |-> "weighted", points |-> points]
calculate_ransac_transform(points) == [method |-> "ransac", points |-> points]

\* a variant that measures the distance in space, height included
calculate_3d_distance_sq(pos1, pos2) ==
    (pos1.x - pos2.x) * (pos1.x - pos2.x) + (pos1.y - pos2.y) * (pos1.y - pos2.y)
    + (pos1.z - pos2.z) * (pos1.z - pos2.z)

\* _calculate_2d_distance, squared (the order of distances is unchanged)
calculate_2d_distance_sq(pos1, pos2) ==
    (pos1.x - pos2.x) * (pos1.x - pos2.x) + (pos1.z - pos2.z) * (pos1.z - pos2.z)

\* distances.sort(key=distance): stable
RECURSIVE insert_by_distance(_, _, _)
insert_by_distance(sorted, point, player_pos) ==
    IF sorted = <<>> THEN <<point>>
    ELSE IF calculate_2d_distance_sq(player_pos, Head(sorted).game_pos)
            <= calculate_2d_distance_sq(player_pos, point.game_pos)
    THEN <<Head(sorted)>> \o insert_by_distance(Tail(sorted), point, player_pos)
    ELSE <<point>> \o sorted

RECURSIVE sorted_by_distance(_, _, _)
sorted_by_distance(sorted, rest, player_pos) ==
    IF rest = <<>> THEN sorted
    ELSE sorted_by_distance(insert_by_distance(sorted, Head(rest), player_pos),
                            Tail(rest), player_pos)

LocalK == 4

nearest_points(points, player_pos) ==
    LET n == Len(points)
        k_actual == IF LocalK < n THEN LocalK ELSE n
    IN  SubSeq(sorted_by_distance(<<>>, points, player_pos), 1, k_actual)

calculate_local_interpolation(points, player_pos) ==
    calculate_basic_transform(nearest_points(points, player_pos))

\* raise ValueError(...)
ValueError == [error |-> "ValueError"]

\* calculate_affine_transform, lines 16-58: fewer than 3 points raise; a
\* player position with local interpolation enabled takes the local fit;
\* otherwise the number of points picks the method
calculate_affine_transform(points, player_pos, use_local_interpolation) ==
    LET n == Len(points)
    IN  IF n < 3 THEN ValueError
        ELSE IF player_pos # None /\ use_local_interpolation /\ n >= 3
        THEN calculate_local_interpolation(points, player_pos[1])
        ELSE IF n <= 3 THEN calculate_basic_transform(points)
        ELSE IF n <= 6 THEN calculate_weighted_transform(points)
        ELSE calculate_ransac_transform(points)

(***************************************************************************)
(* config_manager.py: calculate_transform                                  *)
(***************************************************************************)
get_map_config(m, map_id) == IF map_id \in DOMAIN m THEN Some(m[map_id]) ELSE None

\* None for an unknown map, an unknown layer or fewer than 3 calibration
\* points; otherwise the fitted transform
calculate_transform(m, map_id, layer_id, player_pos) ==
    LET map_config == get_map_config(m, map_id)
        layer == IF map_config = None THEN None
                 ELSE get_layer_by_id(map_config[1], layer_id)
    IN  IF map_config = None THEN None
        ELSE IF layer = None \/ ~is_calibrated(layer[1]) THEN None
        ELSE Some(calculate_affine_transform(layer[1].calibration_points, player_pos,
                                             TRUE))

(***************************************************************************)
(* map_resource_cache.py: the transform cache                              *)
(***************************************************************************)
transform_cache_max_size == 50
GridSize == 10

\* Python's round(v / 10) * 10 for an integer v: ties go to the even multiple
quantize(v) ==
    LET q == v \div GridSize
        r == v % GridSize
    IN  IF 2 * r < GridSize THEN q * GridSize
        ELSE IF 2 * r > GridSize THEN (q + 1) * GridSize
        ELSE IF q % 2 = 0 THEN q * GridSize ELSE (q + 1) * GridSize

\* a variant whose key keeps the height
cache_key_with_height(map_id, layer_id, player_pos) ==
    <<map_id, layer_id,
      IF player_pos # None
      THEN Some(<<quantize(player_pos[1].x), quantize(player_pos[1].z), player_pos[1].y>>)
      ELSE None>>

cache_key(map_id, layer_id, player_pos) ==
    <<map_id, layer_id,
      IF player_pos # None
      THEN Some(<<quantize(player_pos[1].x), quantize(player_pos[1].z)>>)
      ELSE None>>

\* the dict as the sequence of its items, oldest insertion first
cache_keys(cache) == {cache[i].key : i \in 1..Len(cache)}

cache_lookup(cache, key) ==
    LET hits == {i \in 1..Len(cache) : cache[i].key = key}
    IN  IF hits = {} THEN None ELSE Some(cache[Min(hits)].value)

\* dict[key] = value: a present key keeps its place, a new key goes last
cache_assign(cache, key, value) ==
    IF key \in cache_keys(cache)
    THEN [i \in 1..Len(cache) |->
              IF cache[i].key = key THEN [key |-> key, value |-> value] ELSE cache[i]]
    ELSE Append(cache, [key |-> key, value |-> value])

\* a variant that evicts only once the cache is over its capacity
cache_store_above_capacity(cache, key, value) ==
    cache_assign(IF Len(cache) > transform_cache_max_size THEN Tail(cache) ELSE cache,
                 key, value)

\* a variant that evicts the newest item
cache_store_evicting_newest(cache, key, value) ==
    cache_assign(IF Len(cache) >= transform_cache_max_size
                 THEN SubSeq(cache, 1, Len(cache) - 1) ELSE cache,
                 key, value)

\* lines 274-281, under the lock: evict the oldest item when the cache is
\* full, then assign
cache_store(cache, key, value) ==
    cache_assign(IF Len(cache) >= transform_cache_max_size THEN Tail(cache) ELSE cache,
                 key, value)

\* a variant that makes room before it looks at the result
store_computed_room_first(cache, key, computed) ==
    LET room == IF Len(cache) >= transform_cache_max_size THEN Tail(cache) ELSE cache
    IN  IF computed # None THEN cache_assign(room, key, computed[1]) ELSE room

\* lines 273-281: `if transform:` store it; a failed computation stores
\* nothing
store_computed(cache, key, computed) ==
    IF computed # None THEN cache_store(cache, key, computed[1]) ELSE cache

\* a variant that drops the entries of the whole map
cache_invalidate_whole_map(cache, map_id, layer_id) ==
    SelectSeq(cache, LAMBDA it : it.key[1] # map_id)

\* invalidate_transform, under the lock
cache_invalidate(cache, map_id, layer_id) ==
    SelectSeq(cache, LAMBDA it : ~(it.key[1] = map_id /\ it.key[2] = layer_id))

\* get_transform run start to finish by one thread with no other thread in
\* between: the cached value on a hit, else compute and store on success
get_transform(cache, m, map_id, layer_id, player_pos) ==
    LET key == cache_key(map_id, layer_id, player_pos)
        cached == cache_lookup(cache, key)
        computed == calculate_transform(m, map_id, layer_id, player_pos)
    IN  IF cached # None THEN [cache |-> cache, result |-> cached]
        ELSE IF computed # None
        THEN [cache |-> cache_store(cache, key, computed[1]), result |-> computed]
        ELSE [cache |-> cache, result |-> None]

(***************************************************************************)
(* State and operations                                                    *)
(***************************************************************************)
Threads == {"observer", "main"}
current_map_id == "bigmap"
\* the layer selected in the panel (its initial value)
current_layer_id == 0

NoCall == [map_id |-> "", layer_id |-> 0, player_pos |-> None, transform |-> None]

\* observation of the cache protocol: the (map, layer) pairs invalidated
\* and not asked for since; per call in flight, whether it is the first call
\* for its pair since an invalidation and whether the layer's calibration
\* points were edited while it ran; the last call that returned; and the
\* number of calibration edits made; and per call, whether the call that
\* returned before it started gave a transform for the same cache key from
\* another position; and the (map, layer) pairs whose calibration points
\* were edited with no invalidate_transform since (pending) and those for
\* which invalidate_transform returned after their last edit (settled)
NoFlight == [first_after_invalidate |-> FALSE, edited |-> FALSE, moved_within_key |-> FALSE]
NoHist == [invalidated |-> {}, flight |-> [t \in Threads |-> NoFlight], last |-> None,
           edits |-> 0, pending |-> {}, settled |-> {}]

\* positions of the screenshots: three heights inside the floors' ranges
\* and one above them, over a point of R_A, a point of R_B and a point of
\* neither
ShotPositions ==
    {Position3D(xz[1], y, xz[2]) : xz \in {<<1, 1>>, <<4, 1>>, <<1, 4>>}, y \in {1, 3, 4, 10}}

\* ui._on_new_screenshot in calibration mode, lines 1014-1068: the base
\* layer's transform through the cache when the base layer is calibrated,
\* then get_active_layer; without a base layer, the height-only lookup and
\* then the selected layer
get_layer_by_height(layers, y) ==
    LET hits == {i \in 1..Len(layers) : contains_height(layers[i], y)}
    IN  IF hits = {} THEN None ELSE Some(layers[Min(hits)])

OnNewScreenshot(player_pos) ==
    LET layers == maps[current_map_id]
        base_map == get_base_map(layers)
        got == IF base_map # None /\ is_calibrated(base_map[1])
               THEN get_transform(transform_cache, maps, current_map_id,
                                  base_map[1].layer_id, Some(player_pos))
               ELSE [cache |-> transform_cache, result |-> None]
        by_height == get_layer_by_height(layers, player_pos.y)
        layer == IF base_map = None
                 THEN IF by_height # None THEN by_height
                      ELSE get_layer_by_id(layers, current_layer_id)
                 ELSE get_active_layer(layers, player_pos, got.result)
    IN  /\ transform_cache' = got.cache
        /\ shot' = Some([player_pos |-> player_pos,
                         base_map_transform |-> got.result,
                         layer |-> layer])
        /\ UNCHANGED <<validation, applied, maps, pc, call, hist>>

\* what MapConfigManager.load_config can read back for the current map:
\* layers in the file's order (ui._import_map_package builds the list in the
\* package's order, save_config writes it as it is), at most one base layer,
\* each floor layer with no region, a region of its own, or a reference to a
\* layer id.  _deserialize_layer reads a region only when
\* region_owner_layer_id is absent.
FloorRegionStates ==
    {[region |-> None, owner |-> None]}
    \cup {[region |-> Some(r), owner |-> None] : r \in Regions}
    \cup {[region |-> None, owner |-> Some(o)] : o \in LayerIds}

StoredLayers(n) ==
    { [i \in 1..n |->
          MapLayer(ids[i], rs[i][1], rs[i][2], <<>>, base = i,
                   IF base = i THEN None ELSE st[i].region,
                   IF base = i THEN None ELSE st[i].owner)] :
        ids \in {f \in [1..n -> LayerIds] : \A i, j \in 1..n : i # j => f[i] # f[j]},
        rs \in [1..n -> HeightRanges],
        base \in 0..n,
        st \in [1..n -> FloorRegionStates] }

StoredConfigs == UNION {StoredLayers(n) : n \in 0..MaxLayers}

InitStored ==
    /\ maps \in {[m \in MapIds |-> IF m = current_map_id THEN layers ELSE <<>>] :
                    layers \in StoredConfigs}
    /\ transform_cache = <<>>
    /\ shot = None
    /\ validation = None
    /\ applied = None
    /\ pc = [t \in Threads |-> "idle"]
    /\ call = [t \in Threads |-> NoCall]
    /\ hist = NoHist

\* the queries put to MapConfig.get_active_layer: every position with the
\* transform fitted from Cal3, and the positions over R_A with no transform
Queries ==
    {[player_pos |-> p, base_map_transform |-> Some(calculate_basic_transform(Cal3))] :
        p \in ShotPositions}
    \cup {[player_pos |-> p, base_map_transform |-> None] :
             p \in {q \in ShotPositions : q.x = 1 /\ q.z = 1}}

\* a call of MapConfig.get_active_layer on the current map
GetActiveLayer(q) ==
    /\ shot' = Some([player_pos |-> q.player_pos,
                     base_map_transform |-> q.base_map_transform,
                     layer |-> get_active_layer(maps[current_map_id], q.player_pos,
                                                q.base_map_transform)])
    /\ UNCHANGED <<validation, applied, maps, transform_cache, pc, call, hist>>

NextResolve == \E q \in Queries : GetActiveLayer(q)

SpecResolve == InitStored /\ [][NextResolve]_vars

(***************************************************************************)
(* Position events on a stored map with a base layer and two floor layers: *)
(* the layers in any order under any ids, the base layer calibrated (Cal3) *)
(* or not, each floor with one of the height ranges and no region or a     *)
(* region of its own.                                                      *)
(***************************************************************************)
HandlerLayers ==
    { [i \in 1..3 |->
          IF role[i] = "base" THEN MapLayer(ids[i], 0, 10, cal, TRUE, None, None)
          ELSE MapLayer(ids[i], rs[role[i]][1], rs[role[i]][2], <<>>, FALSE,
                        rg[role[i]], None)] :
        role \in {<<"base", "f1", "f2">>, <<"f1", "base", "f2">>, <<"f1", "f2", "base">>},
        ids \in {<<0, 1, 2>>, <<0, 2, 1>>, <<1, 0, 2>>, <<1, 2, 0>>, <<2, 0, 1>>, <<2, 1, 0>>},
        cal \in {<<>>, Cal3},
        rs \in [{"f1", "f2"} -> HeightRanges],
        rg \in [{"f1", "f2"} -> {None} \cup {Some(r) : r \in Regions}] }

InitHandler ==
    /\ maps \in {[m \in MapIds |-> IF m = current_map_id THEN layers ELSE <<>>] :
                    layers \in HandlerLayers}
    /\ transform_cache = <<>>
    /\ shot = None
    /\ validation = None
    /\ applied = None
    /\ pc = [t \in Threads |-> "idle"]
    /\ call = [t \in Threads |-> NoCall]
    /\ hist = NoHist

NextHandler == \E p \in ShotPositions : OnNewScreenshot(p)

SpecHandler == InitHandler /\ [][NextHandler]_vars

(***************************************************************************)
(* Layer activation and resolution: C1 to C4                               *)
(***************************************************************************)
\* the query and the map of the last resolution
shot_layers == maps[current_map_id]
shot_map_pos ==
    IF shot[1].base_map_transform # None
    THEN Some(transform(shot[1].base_map_transform[1], shot[1].player_pos))
    ELSE None

\* the region a floor layer is gated by, stated from the data model: its
\* own region, else the region of the layer its reference names
OwnerIndexes(layers, l) ==
    {j \in 1..Len(layers) :
        /\ l.region_owner_layer_id # None
        /\ layers[j].layer_id = l.region_owner_layer_id[1]}

GatingRegions(layers, l) ==
    IF l.region # None THEN {l.region[1]}
    ELSE {layers[j].region[1] :
             j \in {k \in OwnerIndexes(layers, l) : layers[k].region # None}}

ActivatedFloors(layers, player_pos, map_pos) ==
    {i \in 1..Len(layers) :
        /\ ~layers[i].is_base_map
        /\ is_activated(layers[i], player_pos, map_pos, Some(layers))}

\* C1: a floor layer is activated exactly when the player's height lies in
\* [height_min, height_max] and, if the layer has an effective region (its
\* own or its owner's), a base-map position is supplied and lies inside it;
\* without an effective region height alone decides, and with one the layer
\* is never activated when the base-map position is absent.
C1_ActivationRule ==
    shot # None =>
        \A i \in 1..Len(shot_layers) :
            LET l == shot_layers[i]
                y == shot[1].player_pos.y
                in_height == l.height_min <= y /\ y <= l.height_max
                gates == GatingRegions(shot_layers, l)
            IN  ~l.is_base_map =>
                    ( is_activated(l, shot[1].player_pos, shot_map_pos, Some(shot_layers))
                      <=> /\ in_height
                          /\ \A r \in gates :
                                 /\ shot_map_pos # None
                                 /\ contains_point(r, shot_map_pos[1]) )

\* C1 witness: a floor layer that references another floor's region is the
\* resolved layer, the player being in its height range and inside the
\* owner's region.
C1_Witness ==
    /\ shot # None
    /\ shot[1].layer # None
    /\ ~shot[1].layer[1].is_base_map
    /\ shot[1].layer[1].region = None
    /\ shot[1].layer[1].region_owner_layer_id # None
    /\ GatingRegions(shot_layers, shot[1].layer[1]) # {}
    /\ shot_map_pos # None

\* C2 (as claimed): the resolved layer is, among the activated floor layers,
\* the one of greatest height_max and, among those of equal height_max, the
\* one of smallest layer_id, in whichever order the layers are stored.
C2_HighestThenSmallestId ==
    shot # None =>
        LET act == ActivatedFloors(shot_layers, shot[1].player_pos, shot_map_pos)
        IN  act # {} =>
                /\ shot[1].layer # None
                /\ \E i \in act :
                      /\ shot[1].layer[1] = shot_layers[i]
                      /\ \A j \in act :
                            \/ shot_layers[j].height_max < shot_layers[i].height_max
                            \/ /\ shot_layers[j].height_max = shot_layers[i].height_max
                               /\ shot_layers[i].layer_id <= shot_layers[j].layer_id

\* C3: with no floor layer activated the result is the base layer if there
\* is one, else the first layer of the list, and no layer only for an empty
\* list; the base layer is never the result while a floor layer is activated.
C3_Fallback ==
    shot # None =>
        LET act == ActivatedFloors(shot_layers, shot[1].player_pos, shot_map_pos)
            bases == {i \in 1..Len(shot_layers) : shot_layers[i].is_base_map}
        IN  /\ act = {} =>
                shot[1].layer =
                    IF bases # {} THEN Some(shot_layers[Min(bases)])
                    ELSE IF Len(shot_layers) > 0 THEN Some(shot_layers[1])
                    ELSE None
            /\ shot[1].layer = None => Len(shot_layers) = 0
            /\ (shot[1].layer # None /\ shot[1].layer[1].is_base_map) => act = {}

\* C3 witness: the base layer is the result although the map has a floor
\* layer, none being activated.
C3_Witness ==
    /\ shot # None
    /\ shot[1].layer # None
    /\ shot[1].layer[1].is_base_map
    /\ \E i \in 1..Len(shot_layers) : ~shot_layers[i].is_base_map
    /\ ActivatedFloors(shot_layers, shot[1].player_pos, shot_map_pos) = {}

\* the layers of the scenario: the base layer, floor A (height 0 to 3,
\* region R_A) and floor B (height 3 to 6, region R_B)
ScenarioIndexes(name) ==
    {i \in 1..Len(shot_layers) :
        IF name = "base" THEN shot_layers[i].is_base_map
        ELSE IF name = "A"
        THEN /\ ~shot_layers[i].is_base_map
             /\ shot_layers[i].region = Some(R_A)
             /\ shot_layers[i].height_min = 0 /\ shot_layers[i].height_max = 3
        ELSE /\ ~shot_layers[i].is_base_map
             /\ shot_layers[i].region = Some(R_B)
             /\ shot_layers[i].height_min = 3 /\ shot_layers[i].height_max = 6}

ScenarioLayer(name) == Some(shot_layers[Min(ScenarioIndexes(name))])

IsScenario == \A name \in {"base", "A", "B"} : ScenarioIndexes(name) # {}

ShotAt(x, y, z) == shot # None /\ shot[1].player_pos = Position3D(x, y, z)

ScenarioResolves ==
    /\ ShotAt(1, 1, 1) => shot[1].layer = ScenarioLayer("A")
    /\ ShotAt(4, 4, 1) => shot[1].layer = ScenarioLayer("B")
    /\ \A p \in ShotPositions :
           (p.y = 10 /\ ShotAt(p.x, p.y, p.z)) => shot[1].layer = ScenarioLayer("base")

\* C4 (as claimed): with the base layer calibrated or not, y=1 inside R_A
\* resolves to A, y=4 inside R_B to B, and y=10 to the base layer.
C4_ScenarioAnyBase == IsScenario => ScenarioResolves

\* C4 (amended): with a calibrated base layer, y=1 inside R_A resolves to A,
\* y=4 inside R_B to B and y=10 to the base layer; with an uncalibrated base
\* layer no base-map position exists and every position resolves to the
\* base layer.
C4_ScenarioByCalibration ==
    IsScenario =>
        IF is_calibrated(ScenarioLayer("base")[1])
        THEN ScenarioResolves
        ELSE shot # None => shot[1].layer = ScenarioLayer("base")

\* C4 witness: calibrated base layer, the player at y=4 inside R_B, floor B
\* resolved.
C4_Witness ==
    /\ IsScenario
    /\ ShotAt(4, 4, 1)
    /\ is_calibrated(ScenarioLayer("base")[1])
    /\ shot[1].layer = ScenarioLayer("B")

(***************************************************************************)
(* map_resource_cache.py: get_transform as the steps of one thread.  The   *)
(* lookup and the store each hold the lock; calculate_transform runs       *)
(* between them with the lock released.                                    *)
(***************************************************************************)
Returned(map_id, layer_id, player_pos, result, computes, flight, cache) ==
    LET key == cache_key(map_id, layer_id, player_pos)
        evicts == /\ computes = 1 /\ result # None
                  /\ Len(cache) >= transform_cache_max_size
    IN  Some([map_id |-> map_id, layer_id |-> layer_id,
              player_pos |-> player_pos, result |-> result, computes |-> computes,
              first_after_invalidate |-> flight.first_after_invalidate,
              edited |-> flight.edited,
              moved_within_key |-> flight.moved_within_key,
              current |-> calculate_transform(maps, map_id, layer_id, player_pos),
              hit_oldest |-> computes = 0 /\ cache[1].key = key,
              evicted |-> IF evicts THEN Some(cache[1].key) ELSE None,
              key_was_cached |-> key \in cache_keys(cache),
              after_hit_on_oldest |->
                  /\ evicts
                  /\ hist.last # None
                  /\ hist.last[1].hit_oldest
                  /\ hist.last[1].map_id = cache[1].key[1]
                  /\ hist.last[1].layer_id = cache[1].key[2]
                  /\ cache_key(hist.last[1].map_id, hist.last[1].layer_id,
                               hist.last[1].player_pos) = cache[1].key])

\* lines 254-266: the key, and the lookup under the lock; a hit returns
GetTransformLookup(t, map_id, layer_id, player_pos) ==
    /\ pc[t] = "idle"
    /\ LET key == cache_key(map_id, layer_id, player_pos)
           cached == cache_lookup(transform_cache, key)
           flight == [first_after_invalidate |-> <<map_id, layer_id>> \in hist.invalidated,
                      edited |-> FALSE,
                      moved_within_key |->
                          /\ hist.last # None
                          /\ hist.last[1].result # None
                          /\ hist.last[1].player_pos # player_pos
                          /\ cache_key(hist.last[1].map_id, hist.last[1].layer_id,
                                       hist.last[1].player_pos) = key]
           invalidated == hist.invalidated \ {<<map_id, layer_id>>}
       IN  IF cached # None
           THEN /\ hist' = [hist EXCEPT !.invalidated = invalidated,
                                        !.last = Returned(map_id, layer_id, player_pos,
                                                          cached, 0, flight, transform_cache)]
                /\ UNCHANGED <<pc, call>>
           ELSE /\ pc' = [pc EXCEPT ![t] = "computing"]
                /\ call' = [call EXCEPT ![t] = [map_id |-> map_id, layer_id |-> layer_id,
                                                player_pos |-> player_pos,
                                                transform |-> None]]
                /\ hist' = [hist EXCEPT !.invalidated = invalidated, !.flight[t] = flight]
    /\ UNCHANGED <<maps, transform_cache, shot, validation, applied>>

\* line 271: config_manager.calculate_transform, outside the lock
GetTransformCompute(t) ==
    /\ pc[t] = "computing"
    /\ pc' = [pc EXCEPT ![t] = "computed"]
    /\ call' = [call EXCEPT ![t].transform =
                   calculate_transform(maps, call[t].map_id, call[t].layer_id,
                                       call[t].player_pos)]
    /\ UNCHANGED <<maps, transform_cache, shot, validation, applied, hist>>

\* lines 273-283: the store under the lock when there is a transform, and
\* the return
GetTransformReturn(t) ==
    /\ pc[t] = "computed"
    /\ transform_cache' =
           store_computed(transform_cache,
                          cache_key(call[t].map_id, call[t].layer_id, call[t].player_pos),
                          call[t].transform)
    /\ pc' = [pc EXCEPT ![t] = "idle"]
    /\ call' = [call EXCEPT ![t] = NoCall]
    /\ hist' = [hist EXCEPT !.flight[t] = NoFlight,
                            !.last = Returned(call[t].map_id, call[t].layer_id,
                                              call[t].player_pos, call[t].transform, 1,
                                              hist.flight[t], transform_cache)]
    /\ UNCHANGED <<maps, shot, validation, applied>>

\* invalidate_transform, lines 295-304, all of it under the lock
InvalidateTransform(t, map_id, layer_id) ==
    /\ pc[t] = "idle"
    /\ transform_cache' = cache_invalidate(transform_cache, map_id, layer_id)
    /\ hist' = [hist EXCEPT !.invalidated = @ \cup {<<map_id, layer_id>>},
                            !.settled = IF <<map_id, layer_id>> \in hist.pending
                                        THEN @ \cup {<<map_id, layer_id>>} ELSE @,
                            !.pending = @ \ {<<map_id, layer_id>>}]
    /\ UNCHANGED <<maps, shot, validation, applied, pc, call>>

\* clear_all_transforms, lines 308-310
ClearAllTransforms(t) ==
    /\ pc[t] = "idle"
    /\ transform_cache' = <<>>
    /\ UNCHANGED <<maps, shot, validation, applied, pc, call, hist>>

(***************************************************************************)
(* config_manager.py, ui.py: editing a layer's calibration points, on the  *)
(* main thread.  None of the three touches the transform cache.            *)
(***************************************************************************)
\* the index of the first layer with the given id
layer_index(layers, layer_id) ==
    Min({i \in 1..Len(layers) : layers[i].layer_id = layer_id})

\* layer.calibration_points of that layer, read and replaced
layer_points(layers, layer_id) ==
    layers[layer_index(layers, layer_id)].calibration_points

set_calibration_points(layers, layer_id, points) ==
    [layers EXCEPT ![layer_index(layers, layer_id)].calibration_points = points]

\* the calls in flight for the layer see its points change under them
calibration_edited(map_id, layer_id) ==
    [hist EXCEPT !.edits = @ + 1,
                 !.pending = @ \cup {<<map_id, layer_id>>},
                 !.settled = @ \ {<<map_id, layer_id>>},
                 !.flight =
        [t \in Threads |->
            IF pc[t] # "idle" /\ call[t].map_id = map_id /\ call[t].layer_id = layer_id
            THEN [hist.flight[t] EXCEPT !.edited = TRUE]
            ELSE hist.flight[t]]]

remove_at(points, index) ==
    SubSeq(points, 1, index - 1) \o SubSeq(points, index + 1, Len(points))

\* most calibration points a layer is given, and most edits made
MaxPoints == 4
MaxEdits == 1

\* config_manager.add_calibration_point
AddCalibrationPoint(map_id, layer_id, point) ==
    /\ pc["main"] = "idle"
    /\ hist.edits < MaxEdits
    /\ get_map_config(maps, map_id) # None
    /\ get_layer_by_id(maps[map_id], layer_id) # None
    /\ Len(get_layer_by_id(maps[map_id], layer_id)[1].calibration_points) < MaxPoints
    /\ maps' = [maps EXCEPT ![map_id] =
                   set_calibration_points(@, layer_id,
                       Append(layer_points(@, layer_id), point))]
    /\ hist' = calibration_edited(map_id, layer_id)
    /\ UNCHANGED <<transform_cache, shot, validation, applied, pc, call>>

\* config_manager.clear_calibration_points
ClearCalibrationPoints(map_id, layer_id) ==
    /\ pc["main"] = "idle"
    /\ hist.edits < MaxEdits
    /\ get_map_config(maps, map_id) # None
    /\ get_layer_by_id(maps[map_id], layer_id) # None
    /\ maps' = [maps EXCEPT ![map_id] =
                   set_calibration_points(@, layer_id, <<>>)]
    /\ hist' = calibration_edited(map_id, layer_id)
    /\ UNCHANGED <<transform_cache, shot, validation, applied, pc, call>>

\* ui._delete_calibration_point: calibration_points.pop(index) on the layer
\* selected in the calibration panel
DeleteCalibrationPoint(layer_id, index) ==
    /\ pc["main"] = "idle"
    /\ hist.edits < MaxEdits
    /\ get_layer_by_id(maps[current_map_id], layer_id) # None
    /\ index \in 1..Len(get_layer_by_id(maps[current_map_id], layer_id)[1].calibration_points)
    /\ maps' = [maps EXCEPT ![current_map_id] =
                   set_calibration_points(@, layer_id,
                       remove_at(layer_points(@, layer_id), index))]
    /\ hist' = calibration_edited(current_map_id, layer_id)
    /\ UNCHANGED <<transform_cache, shot, validation, applied, pc, call>>

(***************************************************************************)
(* The cache under two threads and calibration edits: the position-event   *)
(* thread (watchdog observer) and the main thread both call get_transform; *)
(* the main thread also edits the base layer's calibration points and      *)
(* calls invalidate_transform and clear_all_transforms.                    *)
(***************************************************************************)
CalibratedMap ==
    << MapLayer(0, 0, 10, Cal3, TRUE, None, None),
       MapLayer(1, 0, 3, Cal3, FALSE, None, None) >>

InitCache ==
    /\ maps = [m \in MapIds |-> IF m = current_map_id THEN CalibratedMap ELSE <<>>]
    /\ transform_cache = <<>>
    /\ shot = None
    /\ validation = None
    /\ applied = None
    /\ pc = [t \in Threads |-> "idle"]
    /\ call = [t \in Threads |-> NoCall]
    /\ hist = NoHist

\* two positions in different grid cells
CachePositions == {Position3D(1, 1, 1), Position3D(12, 1, 1)}

\* the base layer at both positions, the floor layer and a map without
\* layers at one
CacheRequests ==
    {[map_id |-> current_map_id, layer_id |-> 0, player_pos |-> Some(p)] :
        p \in CachePositions}
    \cup {[map_id |-> m, layer_id |-> l, player_pos |-> Some(Position3D(1, 1, 1))] :
              m \in MapIds, l \in {1}}

\* the layer selected in the calibration panel, and the point a click adds
EditLayers == {current_layer_id}
AddPoints == {CalibrationPoint(4, 0, 4, 5, 4)}

NextCache ==
    \/ \E t \in Threads, r \in CacheRequests :
           GetTransformLookup(t, r.map_id, r.layer_id, r.player_pos)
    \/ \E t \in Threads : GetTransformCompute(t)
    \/ \E t \in Threads : GetTransformReturn(t)
    \/ \E l \in {0, 1} : InvalidateTransform("main", current_map_id, l)
    \/ ClearAllTransforms("main")
    \/ \E l \in EditLayers, p \in AddPoints : AddCalibrationPoint(current_map_id, l, p)
    \/ \E l \in EditLayers : ClearCalibrationPoints(current_map_id, l)
    \/ \E l \in EditLayers, i \in 1..MaxPoints : DeleteCalibrationPoint(l, i)

SpecCache == InitCache /\ [][NextCache]_vars

(***************************************************************************)
(* The cache filled to its capacity: a player walking along x, one grid    *)
(* cell after another, past the cache's capacity.  Both threads ask for    *)
(* the transform of the calibrated base layer at the next cell or at the   *)
(* cell of the oldest entry; the main thread also asks for transforms that *)
(* cannot be computed (an uncalibrated layer, a map without layers),       *)
(* invalidates and clears.                                                 *)
(***************************************************************************)
WalkedMap ==
    << MapLayer(0, 0, 10, Cal3, TRUE, None, None),
       MapLayer(1, 0, 3, <<>>, FALSE, None, None) >>

InitFifo ==
    /\ maps = [m \in MapIds |-> IF m = current_map_id THEN WalkedMap ELSE <<>>]
    /\ transform_cache = <<>>
    /\ shot = None
    /\ validation = None
    /\ applied = None
    /\ pc = [t \in Threads |-> "idle"]
    /\ call = [t \in Threads |-> NoCall]
    /\ hist = NoHist

\* the walk goes ExtraCells cells beyond the cache's capacity
ExtraCells == 3

WalkCells == 0..(transform_cache_max_size + ExtraCells - 1)
WalkPosition(i) == Position3D(GridSize * i + 3, 1, 4)
walk_key(i) == cache_key(current_map_id, 0, Some(WalkPosition(i)))

\* the cell of a key of the walk
key_cell(key) == key[3][1][1] \div GridSize
is_walk_key(key) == key[1] = current_map_id /\ key[2] = 0 /\ key[3] # None

cached_cells ==
    {key_cell(transform_cache[i].key) :
        i \in {j \in 1..Len(transform_cache) : is_walk_key(transform_cache[j].key)}}
oldest_cells ==
    IF transform_cache # <<>> /\ is_walk_key(transform_cache[1].key)
    THEN {key_cell(transform_cache[1].key)} ELSE {}

\* a call for the next cell starts while the calls in flight are for cells
\* at most MaxLag cells away
MaxLag == 1

cells_in_flight ==
    {key_cell(cache_key(call[t].map_id, call[t].layer_id, call[t].player_pos)) :
        t \in {u \in Threads :
                  /\ pc[u] # "idle"
                  /\ is_walk_key(cache_key(call[u].map_id, call[u].layer_id,
                                           call[u].player_pos))}}

\* the cell after the farthest cached one, the first cell for an empty cache
next_cells ==
    LET cached == cached_cells
        next == IF cached = {} THEN 0
                ELSE 1 + CHOOSE m \in cached : \A c \in cached : c <= m
    IN  IF next \in WalkCells /\ \A c \in cells_in_flight : Abs(c - next) <= MaxLag
        THEN {next} ELSE {}

WalkRequests ==
    {[map_id |-> current_map_id, layer_id |-> 0, player_pos |-> Some(WalkPosition(i))] :
        i \in next_cells \cup oldest_cells}

\* an uncalibrated layer, and a map without layers
FailingRequests ==
    {[map_id |-> current_map_id, layer_id |-> 1, player_pos |-> Some(WalkPosition(0))],
     [map_id |-> "Woods", layer_id |-> 0, player_pos |-> Some(WalkPosition(0))]}

NextFifo ==
    \/ \E t \in Threads, r \in WalkRequests :
           GetTransformLookup(t, r.map_id, r.layer_id, r.player_pos)
    \/ \E r \in FailingRequests :
           GetTransformLookup("main", r.map_id, r.layer_id, r.player_pos)
    \/ \E t \in Threads : GetTransformCompute(t)
    \/ \E t \in Threads : GetTransformReturn(t)
    \/ InvalidateTransform("main", current_map_id, 0)
    \/ ClearAllTransforms("main")

SpecFifo == InitFifo /\ [][NextFifo]_vars

(***************************************************************************)
(* models.py: Region.intersects_with                                       *)
(***************************************************************************)
cross_product(o, a, b) ==
    (a[1] - o[1]) * (b[2] - o[2]) - (a[2] - o[2]) * (b[1] - o[1])

Max2(a, b) == IF a > b THEN a ELSE b
Min2(a, b) == IF a < b THEN a ELSE b

\* q within the bounding box of p and r
on_segment(p, q, r) ==
    /\ q[1] <= Max2(p[1], r[1]) /\ q[1] >= Min2(p[1], r[1])
    /\ q[2] <= Max2(p[2], r[2]) /\ q[2] >= Min2(p[2], r[2])

segments_intersect(p1, p2, p3, p4) ==
    LET d1 == cross_product(p3, p4, p1)
        d2 == cross_product(p3, p4, p2)
        d3 == cross_product(p1, p2, p3)
        d4 == cross_product(p1, p2, p4)
    IN  \/ /\ (d1 > 0 /\ d2 < 0) \/ (d1 < 0 /\ d2 > 0)
           /\ (d3 > 0 /\ d4 < 0) \/ (d3 < 0 /\ d4 > 0)
        \/ d1 = 0 /\ on_segment(p3, p1, p4)
        \/ d2 = 0 /\ on_segment(p3, p2, p4)
        \/ d3 = 0 /\ on_segment(p1, p3, p2)
        \/ d4 = 0 /\ on_segment(p1, p4, p2)

\* a vertex of one inside the other, or two edges that meet
intersects_with(points, other) ==
    \/ \E i \in 1..Len(points) : contains_point(other, MapPos(points[i][1], points[i][2]))
    \/ \E j \in 1..Len(other) : contains_point(points, MapPos(other[j][1], other[j][2]))
    \/ \E i \in 1..Len(points), j \in 1..Len(other) :
           segments_intersect(points[i], points[(i % Len(points)) + 1],
                              other[j], other[(j % Len(other)) + 1])

(***************************************************************************)
(* models.py, config_manager.py, ui.py: the mutators of a map's layers,    *)
(* each as the layer list it leaves behind                                 *)
(***************************************************************************)
has_layer(layers, layer_id) == get_layer_by_id(layers, layer_id) # None

\* MapConfig.remove_layer: pops the first layer with the id
remove_layer(layers, layer_id) ==
    LET i == layer_index(layers, layer_id)
    IN  SubSeq(layers, 1, i - 1) \o SubSeq(layers, i + 1, Len(layers))

\* MapConfig.get_layers_sharing_region, as the positions of the layers
get_layers_sharing_region(layers, owner_layer_id) ==
    {i \in 1..Len(layers) : layers[i].region_owner_layer_id = Some(owner_layer_id)}

\* config_manager.set_map_image: the layer with the id is updated, or a new
\* floor layer is created and added
set_map_image(layers, layer_id, height_min, height_max) ==
    IF has_layer(layers, layer_id)
    THEN [layers EXCEPT ![layer_index(layers, layer_id)] =
             [@ EXCEPT !.height_min = height_min, !.height_max = height_max]]
    ELSE add_layer(layers, MapLayer(layer_id, height_min, height_max, <<>>, FALSE,
                                    None, None))

\* ui._import_map_image: set_map_image, then the dialog's map type is
\* written to the layer
import_map_image(layers, layer_id, height_min, height_max, is_base_map) ==
    LET imported == set_map_image(layers, layer_id, height_min, height_max)
    IN  [imported EXCEPT ![layer_index(imported, layer_id)].is_base_map = is_base_map]

\* ui._config_layer_height: the dialog's values are written to the selected
\* layer
config_layer_height(layers, layer_id, height_min, height_max, is_base_map) ==
    IF ~has_layer(layers, layer_id) THEN layers
    ELSE [layers EXCEPT ![layer_index(layers, layer_id)] =
             [@ EXCEPT !.height_min = height_min, !.height_max = height_max,
                       !.is_base_map = is_base_map]]

set_layer_region(layers, layer_id, region) ==
    IF ~has_layer(layers, layer_id) THEN layers
    ELSE IF get_layer_by_id(layers, layer_id)[1].is_base_map THEN layers
    ELSE [layers EXCEPT ![layer_index(layers, layer_id)].region = Some(region)]

clear_layer_region(layers, layer_id) ==
    IF ~has_layer(layers, layer_id) THEN layers
    ELSE [layers EXCEPT ![layer_index(layers, layer_id)].region = None]

bind_layer_to_region(layers, layer_id, owner_layer_id) ==
    IF ~has_layer(layers, layer_id) \/ ~has_layer(layers, owner_layer_id) THEN layers
    ELSE IF ~is_region_owner(get_layer_by_id(layers, owner_layer_id)[1]) THEN layers
    ELSE [layers EXCEPT ![layer_index(layers, layer_id)] =
             [@ EXCEPT !.region = None, !.region_owner_layer_id = Some(owner_layer_id)]]

unbind_layer_region(layers, layer_id) ==
    IF ~has_layer(layers, layer_id) THEN layers
    ELSE [layers EXCEPT ![layer_index(layers, layer_id)] =
             [@ EXCEPT !.region = None, !.region_owner_layer_id = None]]

\* config_manager.delete_layer: refused for an unknown layer and for the
\* base layer; the references to a region owner are cleared, and the layer
\* is removed
delete_layer(layers, layer_id) ==
    IF ~has_layer(layers, layer_id) THEN [success |-> FALSE, layers |-> layers]
    ELSE LET target_layer == get_layer_by_id(layers, layer_id)[1]
             sharing == get_layers_sharing_region(layers, layer_id)
             unshared == [i \in 1..Len(layers) |->
                             IF i \in sharing
                             THEN [layers[i] EXCEPT !.region_owner_layer_id = None]
                             ELSE layers[i]]
         IN  IF target_layer.is_base_map THEN [success |-> FALSE, layers |-> layers]
             ELSE [success |-> TRUE,
                   layers |-> remove_layer(IF is_region_owner(target_layer)
                                           THEN unshared ELSE layers, layer_id)]

count_base_maps(layers) ==
    Cardinality({i \in 1..Len(layers) : layers[i].is_base_map})

\* config_manager.swap_base_map: the flags are exchanged, then region and
\* reference are cleared on every layer that is not the base layer now
swap_base_map(layers, new_base_layer_id) ==
    IF ~has_layer(layers, new_base_layer_id) THEN [success |-> FALSE, layers |-> layers]
    ELSE IF get_layer_by_id(layers, new_base_layer_id)[1].is_base_map
    THEN [success |-> FALSE, layers |-> layers]
    ELSE IF get_base_map(layers) = None THEN [success |-> FALSE, layers |-> layers]
    ELSE LET old == Min({i \in 1..Len(layers) : layers[i].is_base_map})
             new == layer_index(layers, new_base_layer_id)
             swapped == [i \in 1..Len(layers) |->
                            IF i = new THEN [layers[i] EXCEPT !.is_base_map = TRUE]
                            ELSE IF i = old THEN [layers[i] EXCEPT !.is_base_map = FALSE]
                            ELSE layers[i]]
         IN  [success |-> TRUE,
              layers |-> [i \in 1..Len(layers) |->
                             IF swapped[i].is_base_map THEN swapped[i]
                             ELSE [swapped[i] EXCEPT !.region = None,
                                                     !.region_owner_layer_id = None]]]

\* config_manager.validate_region_no_overlap: the first floor layer, other
\* than the excluded one, that owns a region meeting the new one
validate_region_no_overlap(layers, new_region, exclude_layer_id) ==
    LET hits == {i \in 1..Len(layers) :
                    /\ ~layers[i].is_base_map
                    /\ ~(exclude_layer_id # None /\ layers[i].layer_id = exclude_layer_id[1])
                    /\ is_region_owner(layers[i])
                    /\ intersects_with(new_region, layers[i].region[1])}
    IN  IF hits = {} THEN [valid |-> TRUE, owner_info |-> None]
        ELSE [valid |-> FALSE, owner_info |-> Some(layers[Min(hits)].layer_id)]

\* config_manager.validate_height_in_region: TRUE when valid
validate_height_in_region(layers, layer_id, height_min, height_max, region) ==
    IF region = None THEN TRUE
    ELSE ~ \E i \in 1..Len(layers) :
               /\ ~layers[i].is_base_map
               /\ layers[i].layer_id # layer_id
               /\ layers[i].region # None
               /\ layers[i].region[1] = region[1]
               /\ ~(height_max <= layers[i].height_min \/ height_min >= layers[i].height_max)

(***************************************************************************)
(* The layer list of the selected map under the editor's operations.  Each *)
(* action is one call, made on the main thread for the selected map.       *)
(***************************************************************************)
\* most floor layers of the edited map; their ids are 1..MaxFloors, the
\* first base layer has id 0
MaxFloors == 3
EditorIds == 0..MaxFloors

edited(layers) == [maps EXCEPT ![current_map_id] = layers]

\* ui._import_map_image
ImportMapImage(layer_id, range, is_base_map) ==
    /\ maps' = edited(import_map_image(maps[current_map_id], layer_id,
                                       range[1], range[2], is_base_map))
    /\ UNCHANGED <<transform_cache, shot, pc, call, validation, applied, hist>>

\* ui._config_layer_height, for the layer selected in the panel
ConfigLayerHeight(layer_id, range, is_base_map) ==
    /\ has_layer(maps[current_map_id], layer_id)
    /\ maps' = edited(config_layer_height(maps[current_map_id], layer_id,
                                          range[1], range[2], is_base_map))
    /\ UNCHANGED <<transform_cache, shot, pc, call, validation, applied, hist>>

DeleteLayer(layer_id) ==
    /\ maps' = edited(delete_layer(maps[current_map_id], layer_id).layers)
    /\ UNCHANGED <<transform_cache, shot, pc, call, validation, applied, hist>>

SwapBaseMap(new_base_layer_id) ==
    /\ maps' = edited(swap_base_map(maps[current_map_id], new_base_layer_id).layers)
    /\ UNCHANGED <<transform_cache, shot, pc, call, validation, applied, hist>>

SetLayerRegion(layer_id, region) ==
    /\ maps' = edited(set_layer_region(maps[current_map_id], layer_id, region))
    /\ UNCHANGED <<transform_cache, shot, pc, call, validation, applied, hist>>

ClearLayerRegion(layer_id) ==
    /\ maps' = edited(clear_layer_region(maps[current_map_id], layer_id))
    /\ UNCHANGED <<transform_cache, shot, pc, call, validation, applied, hist>>

BindLayerToRegion(layer_id, owner_layer_id) ==
    /\ maps' = edited(bind_layer_to_region(maps[current_map_id], layer_id, owner_layer_id))
    /\ UNCHANGED <<transform_cache, shot, pc, call, validation, applied, hist>>

UnbindLayerRegion(layer_id) ==
    /\ maps' = edited(unbind_layer_region(maps[current_map_id], layer_id))
    /\ UNCHANGED <<transform_cache, shot, pc, call, validation, applied, hist>>

(***************************************************************************)
(* Layers imported, configured, deleted and swapped, from a map that holds *)
(* its base layer only.                                                    *)
(***************************************************************************)
BaseLayerOnly == << MapLayer(0, 0, 10, <<>>, TRUE, None, None) >>

InitLayers ==
    /\ maps = [m \in MapIds |-> IF m = current_map_id THEN BaseLayerOnly ELSE <<>>]
    /\ transform_cache = <<>>
    /\ shot = None
    /\ pc = [t \in Threads |-> "idle"]
    /\ call = [t \in Threads |-> NoCall]
    /\ validation = None
    /\ applied = None
    /\ hist = NoHist

NextLayers ==
    \/ \E l \in EditorIds, r \in HeightRanges, b \in BOOLEAN : ImportMapImage(l, r, b)
    \/ \E l \in EditorIds, r \in HeightRanges, b \in BOOLEAN : ConfigLayerHeight(l, r, b)
    \/ \E l \in EditorIds : DeleteLayer(l)
    \/ \E l \in EditorIds : SwapBaseMap(l)

SpecLayers == InitLayers /\ [][NextLayers]_vars

(***************************************************************************)
(* Regions set, cleared, bound and unbound, layers deleted and the base    *)
(* map swapped, from a map with its base layer and MaxFloors floor layers  *)
(* that hold no region yet.                                                *)
(***************************************************************************)
\* floor 1 below floors 2, 3, ..., which share one height range
FloorLayer(id) ==
    MapLayer(id, IF id = 1 THEN 0 ELSE 3, IF id = 1 THEN 3 ELSE 6, <<>>, FALSE, None, None)

BaseAndFloors ==
    [i \in 1..(MaxFloors + 1) |->
        IF i = 1 THEN MapLayer(0, 0, 10, <<>>, TRUE, None, None) ELSE FloorLayer(i - 1)]

InitRegions ==
    /\ maps = [m \in MapIds |-> IF m = current_map_id THEN BaseAndFloors ELSE <<>>]
    /\ transform_cache = <<>>
    /\ shot = None
    /\ pc = [t \in Threads |-> "idle"]
    /\ call = [t \in Threads |-> NoCall]
    /\ validation = None
    /\ applied = None
    /\ hist = NoHist

NextRegions ==
    \/ \E l \in EditorIds, r \in Regions : SetLayerRegion(l, r)
    \/ \E l \in EditorIds : ClearLayerRegion(l)
    \/ \E l, o \in EditorIds : BindLayerToRegion(l, o)
    \/ \E l \in EditorIds : UnbindLayerRegion(l)
    \/ \E l \in EditorIds : DeleteLayer(l)
    \/ \E l \in EditorIds : SwapBaseMap(l)

SpecRegions == InitRegions /\ [][NextRegions]_vars

(***************************************************************************)
(* ui.py: saving a marked region, and the two validations as calls of      *)
(* their own.  validation holds the call made last and its outcome.        *)
(***************************************************************************)
\* _save_region for the selected layer and the points marked: what is
\* left of the layers, and the way the handler ended
save_region(layers, layer_id, points, confirm, reuse) ==
    LET layer == get_layer_by_id(layers, layer_id)[1]
        shared == /\ is_region_owner(layer)
                  /\ get_layers_sharing_region(layers, layer_id) # {}
        overlap == validate_region_no_overlap(layers, points, Some(layer_id))
        height_valid == validate_height_in_region(layers, layer_id, layer.height_min,
                                                  layer.height_max, Some(points))
    IN  IF Len(points) < 3 THEN [layers |-> layers, outcome |-> "too few points"]
        ELSE IF shared /\ ~confirm THEN [layers |-> layers, outcome |-> "declined"]
        ELSE IF ~overlap.valid
        THEN IF ~reuse THEN [layers |-> layers, outcome |-> "cancelled"]
             ELSE IF ~height_valid THEN [layers |-> layers, outcome |-> "height conflict"]
             ELSE [layers |-> bind_layer_to_region(layers, layer_id, overlap.owner_info[1]),
                   outcome |-> "bound"]
        ELSE IF ~height_valid THEN [layers |-> layers, outcome |-> "height conflict"]
        ELSE [layers |-> set_layer_region(layers, layer_id, points), outcome |-> "saved"]

\* _toggle_region_marking_mode leaving the mode with the points marked: the
\* selected layer exists and is a floor layer, and the map has a base layer
SaveRegion(layer_id, points, confirm, reuse) ==
    /\ has_layer(maps[current_map_id], layer_id)
    /\ ~get_layer_by_id(maps[current_map_id], layer_id)[1].is_base_map
    /\ get_base_map(maps[current_map_id]) # None
    /\ LET saved == save_region(maps[current_map_id], layer_id, points, confirm, reuse)
       IN  /\ maps' = edited(saved.layers)
           /\ validation' = Some([op |-> "save_region", layer_id |-> layer_id,
                                  new_region |-> points, outcome |-> saved.outcome])
    /\ UNCHANGED <<applied, transform_cache, shot, pc, call, hist>>

ValidateRegionNoOverlap(new_region, exclude_layer_id) ==
    /\ LET result == validate_region_no_overlap(maps[current_map_id], new_region,
                                                exclude_layer_id)
       IN  validation' = Some([op |-> "validate_region_no_overlap",
                               new_region |-> new_region,
                               exclude_layer_id |-> exclude_layer_id,
                               valid |-> result.valid, owner_info |-> result.owner_info])
    /\ UNCHANGED <<applied, maps, transform_cache, shot, pc, call, hist>>

ValidateHeightInRegion(layer_id, range, region) ==
    /\ validation' = Some([op |-> "validate_height_in_region", layer_id |-> layer_id,
                           height_min |-> range[1], height_max |-> range[2],
                           region |-> region,
                           valid |-> validate_height_in_region(maps[current_map_id], layer_id,
                                                               range[1], range[2], region)])
    /\ UNCHANGED <<applied, maps, transform_cache, shot, pc, call, hist>>

\* a polygon that meets R_B and not R_A
R_D == <<<<4, 1>>, <<6, 1>>, <<6, 3>>, <<4, 3>>>>
MarkedRegions == Regions \cup {R_D}

\* candidates with fewer than 3 boundary points
ShortRegions == {<<>>, <<<<0, 0>>, <<1, 1>>>>}

\* the floor layers' ids
FloorIds == 1..MaxFloors

NextSave ==
    \/ \E l \in EditorIds, r \in MarkedRegions, confirm, reuse \in BOOLEAN :
           SaveRegion(l, r, confirm, reuse)
    \/ \E r \in Regions \cup ShortRegions, x \in {None, Some(1)} :
           ValidateRegionNoOverlap(r, x)
    \/ \E l \in FloorIds \ {1}, h \in HeightRanges, r \in {None, Some(R_A)} :
           ValidateHeightInRegion(l, h, r)

SpecSave == InitRegions /\ [][NextSave]_vars

(***************************************************************************)
(* The cache's keys: calls for three (map, layer) pairs, with no position  *)
(* and at positions of one grid cell (at two heights) and of the cells     *)
(* beside it along x and along z.  The main thread invalidates pairs; the  *)
(* cache stays below its capacity, so nothing is evicted.                  *)
(***************************************************************************)
KeyedMaps ==
    [m \in MapIds |->
        IF m = current_map_id THEN CalibratedMap
        ELSE << MapLayer(0, 0, 10, Cal3, TRUE, None, None) >>]

InitKeys ==
    /\ maps = KeyedMaps
    /\ transform_cache = <<>>
    /\ shot = None
    /\ validation = None
    /\ applied = None
    /\ pc = [t \in Threads |-> "idle"]
    /\ call = [t \in Threads |-> NoCall]
    /\ hist = NoHist

KeyPositions ==
    {None, Some(Position3D(1, 1, 1)), Some(Position3D(3, 7, 4)),
     Some(Position3D(12, 1, 1)), Some(Position3D(1, 1, 12))}

KeyRequests ==
    {[map_id |-> current_map_id, layer_id |-> 0, player_pos |-> p] : p \in KeyPositions}
    \cup {[map_id |-> current_map_id, layer_id |-> 1, player_pos |-> None],
          [map_id |-> "Woods", layer_id |-> 0, player_pos |-> Some(Position3D(1, 1, 1))]}

\* the position events come from one place
ObserverRequests ==
    {r \in KeyRequests : r.layer_id = 0 /\ r.player_pos = Some(Position3D(1, 1, 1))}

\* most entries the cache is filled to by the calls
MaxEntries == 3

\* a call starts for a cached key, or while the cache is below MaxEntries
admitted(r) ==
    \/ cache_key(r.map_id, r.layer_id, r.player_pos) \in cache_keys(transform_cache)
    \/ Len(transform_cache) < MaxEntries

NextKeys ==
    \/ \E r \in KeyRequests :
           admitted(r) /\ GetTransformLookup("main", r.map_id, r.layer_id, r.player_pos)
    \/ \E r \in ObserverRequests :
           admitted(r) /\ GetTransformLookup("observer", r.map_id, r.layer_id, r.player_pos)
    \/ \E t \in Threads : GetTransformCompute(t)
    \/ \E t \in Threads : GetTransformReturn(t)
    \/ \E l \in {0, 1} : InvalidateTransform("main", current_map_id, l)

SpecKeys == InitKeys /\ [][NextKeys]_vars

(***************************************************************************)
(* The transform cache under concurrency and edits: C5 to C7               *)
(***************************************************************************)
call_key(t) == cache_key(call[t].map_id, call[t].layer_id, call[t].player_pos)

\* C5 (as claimed): for one cache key, at most one invocation of
\* calculate_transform is in progress at any time, and no second thread
\* computes a key that another thread is computing or has just computed
\* and not yet stored.
C5_SingleFlight ==
    \A t1, t2 \in Threads :
        (t1 # t2 /\ pc[t1] = "computing" /\ pc[t2] \in {"computing", "computed"})
            => call_key(t1) # call_key(t2)

\* C6 (as claimed): the first get_transform started for a (map, layer) pair
\* after invalidate_transform returned for it invokes calculate_transform
\* exactly once.
C6_NextCallComputesOnce ==
    (hist.last # None /\ hist.last[1].first_after_invalidate)
        => hist.last[1].computes = 1

\* C7 (as claimed): once a calibration point was added or removed, a
\* get_transform that ran with no edit under way returns what
\* calculate_transform gives for the layer's current calibration points (no
\* transform below 3 points).
C7_CurrentCalibration ==
    (hist.edits > 0 /\ hist.last # None /\ ~hist.last[1].edited)
        => hist.last[1].result = hist.last[1].current

(***************************************************************************)
(* The transform cache at its capacity: C8 to C10                          *)
(***************************************************************************)
\* what the data model says of a request: the map is known, the layer
\* exists and has at least 3 calibration points
can_compute(c) ==
    /\ c.map_id \in DOMAIN maps
    /\ \E i \in 1..Len(maps[c.map_id]) :
           /\ maps[c.map_id][i].layer_id = c.layer_id
           /\ \A j \in 1..(i - 1) : maps[c.map_id][j].layer_id # c.layer_id
           /\ Len(maps[c.map_id][i].calibration_points) >= 3

\* C8: a get_transform whose computation fails (unknown map or layer, fewer
\* than 3 calibration points) returns no transform, and none of its steps
\* changes the transform cache: nothing is inserted and nothing evicted,
\* also when the cache is at capacity.
C8_FailureLeavesCache ==
    [][\A t \in Threads :
          /\ (pc[t] = "idle" /\ pc'[t] = "computing")
                 => transform_cache' = transform_cache
          /\ (pc[t] = "computing" /\ pc'[t] = "computed")
                 => transform_cache' = transform_cache
          /\ (pc[t] = "computed" /\ pc'[t] = "idle" /\ ~can_compute(call[t]))
                 => /\ transform_cache' = transform_cache
                    /\ hist'.last # None
                    /\ hist'.last[1].result = None
                    /\ hist'.last[1].computes = 1]_vars

\* C8 witness: a call for a transform that cannot be computed has returned
\* none, the cache being at capacity.
C8_Witness ==
    /\ hist.last # None
    /\ hist.last[1].result = None
    /\ hist.last[1].computes = 1
    /\ Len(transform_cache) = transform_cache_max_size

\* C9: in every reachable state the transform cache holds at most
\* transform_cache_max_size entries.
C9_Capacity == Len(transform_cache) <= transform_cache_max_size

\* C9 witness: the cache is at capacity after a store that evicted an entry.
C9_Witness ==
    /\ Len(transform_cache) = transform_cache_max_size
    /\ hist.last # None
    /\ hist.last[1].evicted # None
    /\ transform_cache[Len(transform_cache)].key =
           cache_key(hist.last[1].map_id, hist.last[1].layer_id, hist.last[1].player_pos)

\* C10: a successful compute for a key that is not cached, finding the cache
\* at capacity, evicts exactly the oldest entry and appends the new one; a
\* cache hit leaves the cache, and so the next entry to evict, as it is.
C10_FifoEviction ==
    [][/\ \A t \in Threads :
             ( /\ pc[t] = "computed" /\ pc'[t] = "idle"
               /\ call[t].transform # None
               /\ call_key(t) \notin cache_keys(transform_cache)
               /\ Len(transform_cache) = transform_cache_max_size )
             => transform_cache' =
                    Append(Tail(transform_cache),
                           [key |-> call_key(t), value |-> call[t].transform[1]])
       /\ (pc' = pc /\ hist'.last # hist.last /\ hist'.last # None
              /\ hist'.last[1].computes = 0)
             => transform_cache' = transform_cache]_vars

\* C10 witness: an entry was returned by a hit while it was the oldest, and
\* the next return was a store of a key not cached that evicted that entry.
C10_Witness ==
    /\ hist.last # None
    /\ hist.last[1].evicted # None
    /\ ~hist.last[1].key_was_cached
    /\ hist.last[1].after_hit_on_oldest

(***************************************************************************)
(* The cache's keys and invalidation: C11, C12                             *)
(***************************************************************************)
entry_pair(e) == <<e.key[1], e.key[2]>>

\* the entries of the cache before position i that belong to the pair
pair_entries_before(pair, i) ==
    {j \in 1..(i - 1) : entry_pair(transform_cache[j]) = pair}

\* C11: a step of invalidate_transform(map_id, layer_id) leaves no entry of
\* that (map, layer) pair in the cache, whatever its quantized position and
\* also with no position, and keeps every entry of any other pair, in the
\* order they had.
C11_InvalidateOnlyPair ==
    [][\A m \in MapIds, l \in LayerIds :
          ( /\ pc' = pc
            /\ hist'.last = hist.last
            /\ <<m, l>> \in hist'.invalidated
            /\ \/ <<m, l>> \notin hist.invalidated
               \/ \E i \in 1..Len(transform_cache) :
                      /\ entry_pair(transform_cache[i]) = <<m, l>>
                      /\ transform_cache[i].key \notin cache_keys(transform_cache') )
          => /\ \A j \in 1..Len(transform_cache') :
                    entry_pair(transform_cache'[j]) # <<m, l>>
             /\ \A i \in 1..Len(transform_cache) :
                    entry_pair(transform_cache[i]) # <<m, l>>
                        => LET j == i - Cardinality(pair_entries_before(<<m, l>>, i))
                           IN  /\ j \in 1..Len(transform_cache')
                               /\ transform_cache'[j] = transform_cache[i]
             /\ Len(transform_cache') =
                    Len(transform_cache)
                        - Cardinality(pair_entries_before(<<m, l>>, Len(transform_cache) + 1))
      ]_vars

\* C11 witness: the last call computed and stored the transform of
\* (bigmap, 0) for no position; the pair was invalidated since, no entry of
\* it is left, and the entries of (bigmap, 1) and (Woods, 0) are in the cache.
C11_Witness ==
    /\ hist.last # None
    /\ hist.last[1].computes = 1
    /\ hist.last[1].result # None
    /\ hist.last[1].map_id = current_map_id
    /\ hist.last[1].layer_id = 0
    /\ hist.last[1].player_pos = None
    /\ <<current_map_id, 0>> \in hist.invalidated
    /\ \A t \in Threads : pc[t] = "idle"
    /\ {entry_pair(transform_cache[i]) : i \in 1..Len(transform_cache)} =
           {<<current_map_id, 1>>, <<"Woods", 0>>}

\* the cell of a cached key is the cell of the position: both absent, or
\* the x and z of the position quantized
same_cell(cell, player_pos) ==
    IF player_pos = None THEN cell = None
    ELSE /\ cell # None
         /\ cell[1] = <<quantize(player_pos[1].x), quantize(player_pos[1].z)>>

entries_for(map_id, layer_id, player_pos) ==
    {i \in 1..Len(transform_cache) :
        /\ transform_cache[i].key[1] = map_id
        /\ transform_cache[i].key[2] = layer_id
        /\ same_cell(transform_cache[i].key[3], player_pos)}

\* C12: a get_transform call goes on to calculate_transform only when the
\* cache holds no entry of its map and layer for the grid cell of its x and
\* z (whatever its height y); when the cache holds one, the call returns
\* that entry's transform without computing and leaves the cache as it is.
\* An entry of another cell is never returned.
C12_SameCellHits ==
    [][/\ \A t \in Threads :
             (pc[t] = "idle" /\ pc'[t] = "computing")
                 => entries_for(call'[t].map_id, call'[t].layer_id,
                                call'[t].player_pos) = {}
       /\ ( /\ pc' = pc
            /\ hist'.last # hist.last
            /\ hist'.last # None
            /\ hist'.last[1].computes = 0 )
          => LET r == hist'.last[1]
                 hits == entries_for(r.map_id, r.layer_id, r.player_pos)
             IN  /\ Cardinality(hits) = 1
                 /\ \A i \in hits : r.result = Some(transform_cache[i].value)
                 /\ transform_cache' = transform_cache
      ]_vars

\* C12 witness: a call at (3, 7, 4) returned a transform without computing,
\* right after a call at another position of the same cell and another
\* height returned the transform of that key.
C12_Witness ==
    /\ hist.last # None
    /\ hist.last[1].moved_within_key
    /\ hist.last[1].computes = 0
    /\ hist.last[1].result # None
    /\ hist.last[1].player_pos = Some(Position3D(3, 7, 4))

(***************************************************************************)
(* The base layer and the region states under the editor: C13 to C17       *)
(***************************************************************************)
edited_layers == maps[current_map_id]

\* C13 (as claimed): after any sequence of layer imports (as base map or as
\* floor map), layer-configuration edits, delete_layer and swap_base_map, on
\* a map that had exactly one base layer, exactly one layer has
\* is_base_map = TRUE.
C13_ExactlyOneBase ==
    Cardinality({i \in 1..Len(edited_layers) : edited_layers[i].is_base_map}) = 1

\* C14 (as claimed): after any sequence of set_layer_region,
\* clear_layer_region, bind_layer_to_region, unbind_layer_region,
\* delete_layer and swap_base_map, a layer with is_base_map = TRUE has no
\* region of its own and no region_owner_layer_id.
C14_BaseHoldsNoRegion ==
    \A i \in 1..Len(edited_layers) :
        edited_layers[i].is_base_map
            => /\ edited_layers[i].region = None
               /\ edited_layers[i].region_owner_layer_id = None

\* C15 (as claimed): after any sequence of those operations no layer has
\* both a region of its own and a region_owner_layer_id.
C15_OwnsOrReferences ==
    \A i \in 1..Len(edited_layers) :
        ~(edited_layers[i].region # None /\ edited_layers[i].region_owner_layer_id # None)

\* C16 (as claimed): after any sequence of those operations no layer whose
\* region_owner_layer_id is set points at a layer whose own
\* region_owner_layer_id is set; no layer references itself.
C16_NoReferenceChains ==
    \A i, j \in 1..Len(edited_layers) :
        ( /\ edited_layers[i].region_owner_layer_id # None
          /\ edited_layers[j].layer_id = edited_layers[i].region_owner_layer_id[1] )
            => edited_layers[j].region_owner_layer_id = None

\* the layer of the list with the id (ids are unique in the edited map)
layer_of(layers, layer_id) ==
    layers[CHOOSE i \in 1..Len(layers) : layers[i].layer_id = layer_id]

layer_ids(layers) == {layers[i].layer_id : i \in 1..Len(layers)}

\* C17 (as claimed): when delete_layer succeeds for a layer that owns a
\* region, the layer is gone, every layer that referenced it has
\* region_owner_layer_id = None and no region, and every other remaining
\* layer keeps its region, reference, height range and calibration points.
C17_DeleteOwnerClearsReferences ==
    [][\A d \in layer_ids(edited_layers) :
          ( /\ d \notin layer_ids(maps'[current_map_id])
            /\ layer_of(edited_layers, d).region # None
            /\ layer_of(edited_layers, d).region_owner_layer_id = None )
          => /\ layer_ids(maps'[current_map_id]) = layer_ids(edited_layers) \ {d}
             /\ \A l \in layer_ids(edited_layers) \ {d} :
                    LET before == layer_of(edited_layers, l)
                        after == layer_of(maps'[current_map_id], l)
                    IN  IF before.region_owner_layer_id = Some(d)
                        THEN /\ after.region_owner_layer_id = None
                             /\ after.region = None
                        ELSE /\ after.region = before.region
                             /\ after.region_owner_layer_id = before.region_owner_layer_id
                             /\ after.height_min = before.height_min
                             /\ after.height_max = before.height_max
                             /\ after.calibration_points = before.calibration_points
      ]_vars

C19_ShortRegionInvalid ==
    ( /\ validation # None
      /\ validation[1].op = "validate_region_no_overlap"
      /\ Len(validation[1].new_region) < 3 )
        => ~validation[1].valid

\* the region a layer is activated by: its own, or its owner's
effective_region(layers, l) ==
    IF l.region # None THEN l.region
    ELSE IF l.region_owner_layer_id # None /\ l.region_owner_layer_id[1] \in layer_ids(layers)
    THEN layer_of(layers, l.region_owner_layer_id[1]).region
    ELSE None

heights_overlap(min1, max1, min2, max2) == min1 < max2 /\ min2 < max1

\* C20 (as claimed): validate_height_in_region reports a conflict whenever
\* another floor layer whose effective region (its own, or its owner's) has
\* the point sequence of the given region has a height range overlapping
\* the given one.
C20_HeightConflictReported ==
    ( /\ validation # None
      /\ validation[1].op = "validate_height_in_region"
      /\ validation[1].region # None
      /\ \E i \in 1..Len(edited_layers) :
             /\ ~edited_layers[i].is_base_map
             /\ edited_layers[i].layer_id # validation[1].layer_id
             /\ effective_region(edited_layers, edited_layers[i]) = validation[1].region
             /\ heights_overlap(validation[1].height_min, validation[1].height_max,
                                edited_layers[i].height_min, edited_layers[i].height_max) )
        => ~validation[1].valid

(***************************************************************************)
(* coordinate_transform.py called on its own: the fit of a list of         *)
(* calibration points, and the fitted transform applied to a position.     *)
(***************************************************************************)
\* most calibration points in a list
MaxFitPoints == 7

\* calibration points at distinct game positions and heights; points 4, 7
\* and 8 lie on one line of the (x, z) plane, and so do points 2, 3 and 6
FitPool ==
    << CalibrationPoint(0, 0, 0, 1, 3),
       CalibrationPoint(4, 1, 0, 9, 3),
       CalibrationPoint(0, 2, 4, 1, 11),
       CalibrationPoint(4, 3, 4, 9, 12),
       CalibrationPoint(2, 0, 1, 5, 5),
       CalibrationPoint(1, 5, 3, 3, 9),
       CalibrationPoint(6, 1, 2, 14, 7),
       CalibrationPoint(3, 2, 5, 7, 13),
       CalibrationPoint(5, 4, 5, 11, 13) >>

\* the points of FitPool at the indices S, in the pool's order
RECURSIVE pool_points(_, _)
pool_points(i, S) ==
    IF i > Len(FitPool) THEN <<>>
    ELSE (IF i \in S THEN <<FitPool[i]>> ELSE <<>>) \o pool_points(i + 1, S)

\* the test points of the module's __main__ block
test_points ==
    << CalibrationPoint(100, 0, 200, 500, 300),
       CalibrationPoint(150, 0, 250, 600, 400),
       CalibrationPoint(200, 0, 200, 700, 300) >>
test_pos == Position3D(125, 0, 225)

FitInputs == {pool_points(1, S) : S \in SUBSET (1..MaxFitPoints)} \cup {test_points}

QueryPositions ==
    {Position3D(1, 0, 1), Position3D(1, 9, 1), Position3D(5, 2, 3), test_pos}

\* The functions keep no state between calls: a behaviour is one call of a
\* fit, then applications of the transform it returned.
\* calculate_affine_transform(points, player_pos, use_local_interpolation);
\* local_points are the points _calculate_local_interpolation fits, when
\* it is the branch taken
CalculateAffineTransform(points, player_pos, use_local_interpolation) ==
    /\ applied = None
    /\ applied' = Some([op |-> "calculate_affine_transform",
                        points |-> points,
                        player_pos |-> player_pos,
                        use_local_interpolation |-> use_local_interpolation,
                        local_points |->
                            IF Len(points) >= 3 /\ player_pos # None
                               /\ use_local_interpolation
                            THEN Some(nearest_points(points, player_pos[1]))
                            ELSE None,
                        result |-> calculate_affine_transform(points, player_pos,
                                                              use_local_interpolation)])
    /\ UNCHANGED <<maps, transform_cache, shot, pc, call, validation, hist>>

\* _calculate_basic_transform(points)
CalculateBasicTransform(points) ==
    /\ applied = None
    /\ applied' = Some([op |-> "calculate_basic_transform",
                        points |-> points,
                        result |-> calculate_basic_transform(points)])
    /\ UNCHANGED <<maps, transform_cache, shot, pc, call, validation, hist>>

\* CoordinateTransform.transform(game_pos) on the transform the last fit
\* returned
Transform(game_pos) ==
    /\ applied # None
    /\ applied[1].op \in {"calculate_affine_transform", "calculate_basic_transform"}
    /\ "a" \in DOMAIN applied[1].result
    /\ applied' = Some([op |-> "transform",
                        points |-> applied[1].points,
                        fitted_by |-> applied[1].op,
                        game_pos |-> game_pos,
                        result |-> transform(applied[1].result, game_pos)])
    /\ UNCHANGED <<maps, transform_cache, shot, pc, call, validation, hist>>

InitFit ==
    /\ maps = [m \in MapIds |-> <<>>]
    /\ transform_cache = <<>>
    /\ shot = None
    /\ pc = [t \in Threads |-> "idle"]
    /\ call = [t \in Threads |-> NoCall]
    /\ validation = None
    /\ applied = None
    /\ hist = NoHist

NextFit ==
    \/ /\ applied = None
       /\ \E points \in FitInputs, use_local_interpolation \in BOOLEAN,
          player_pos \in {None} \cup {Some(p) : p \in QueryPositions} :
              CalculateAffineTransform(points, player_pos, use_local_interpolation)
    \/ /\ applied = None
       /\ \E points \in {p \in FitInputs : Len(p) >= 1} : CalculateBasicTransform(points)
    \/ \E game_pos \in QueryPositions : Transform(game_pos)

SpecFit == InitFit /\ [][NextFit]_vars

\* the strategy calculate_affine_transform takes with no player position or
\* with local interpolation off
\* C21 (as claimed): without a player position, or with local interpolation
\* disabled, calculate_affine_transform fails for fewer than 3 points, gives
\* the basic fit of all points for 3 to 6 points and the RANSAC fit for more
\* than 6.
C21_StrategyByCount ==
    ( /\ applied # None
      /\ applied[1].op = "calculate_affine_transform"
      /\ (applied[1].player_pos = None \/ ~applied[1].use_local_interpolation) )
        => LET n == Len(applied[1].points)
           IN  applied[1].result =
                   IF n < 3 THEN ValueError
                   ELSE IF n <= 6 THEN calculate_basic_transform(applied[1].points)
                   ELSE calculate_ransac_transform(applied[1].points)

\* the squared distance of two positions in the horizontal (x, z) plane
planar_distance_sq(p, q) == (p.x - q.x) * (p.x - q.x) + (p.z - q.z) * (p.z - q.z)

\* a position, and a list of calibration points, moved to height h
at_height(pos, h) == [pos EXCEPT !.y = h]
points_at_height(points, h) ==
    [i \in 1..Len(points) |-> [points[i] EXCEPT !.game_pos = at_height(points[i].game_pos, h)]]

seq_set(s) == {s[i] : i \in 1..Len(s)}

\* C22: with a player position and local interpolation enabled, for n >= 3
\* points the fit is the basic fit of exactly min(4, n) of the points, no
\* chosen point is farther from the player in the (x, z) plane than a point
\* left out, and the same points are chosen when the player and every
\* calibration point are moved to height 0.
C22_NearestInPlane ==
    ( /\ applied # None
      /\ applied[1].op = "calculate_affine_transform"
      /\ applied[1].player_pos # None
      /\ applied[1].use_local_interpolation
      /\ Len(applied[1].points) >= 3 )
        => LET points == applied[1].points
               pos == applied[1].player_pos[1]
               n == Len(points)
           IN  /\ applied[1].local_points # None
               /\ LET chosen == applied[1].local_points[1]
                  IN  /\ Len(chosen) = (IF n < 4 THEN n ELSE 4)
                      /\ Cardinality(seq_set(chosen)) = Len(chosen)
                      /\ seq_set(chosen) \subseteq seq_set(points)
                      /\ \A p \in seq_set(chosen), q \in seq_set(points) \ seq_set(chosen) :
                             planar_distance_sq(pos, p.game_pos)
                                 <= planar_distance_sq(pos, q.game_pos)
                      /\ applied[1].result = calculate_basic_transform(chosen)
                      /\ points_at_height(chosen, 0)
                             = nearest_points(points_at_height(points, 0), at_height(pos, 0))

\* a local fit of more than 4 points for a player at height 9, where a point
\* left out is nearer in space than a chosen one
C22_Witness ==
    /\ applied # None
    /\ applied[1].op = "calculate_affine_transform"
    /\ applied[1].local_points # None
    /\ Len(applied[1].points) > 4
    /\ applied[1].player_pos[1].y = 9
    /\ \E p \in seq_set(applied[1].local_points[1]),
          q \in seq_set(applied[1].points) \ seq_set(applied[1].local_points[1]) :
           calculate_3d_distance_sq(applied[1].player_pos[1], q.game_pos)
               < calculate_3d_distance_sq(applied[1].player_pos[1], p.game_pos)

\* the game (x, z) positions of the points all lie on one line
collinear(points) ==
    \A i, j, k \in 1..Len(points) :
        (points[j].game_pos.x - points[i].game_pos.x)
            * (points[k].game_pos.z - points[i].game_pos.z)
        = (points[j].game_pos.z - points[i].game_pos.z)
            * (points[k].game_pos.x - points[i].game_pos.x)

\* the points a call hands to the basic fit, if it takes the basic fit
basic_fit_points(a) ==
    IF a.op = "calculate_basic_transform" THEN Some(a.points)
    ELSE IF a.op = "calculate_affine_transform" /\ a.local_points # None THEN a.local_points
    ELSE IF a.op = "calculate_affine_transform" /\ Len(a.points) = 3 THEN Some(a.points)
    ELSE None

\* C23 (as claimed): the basic fit of 3 or more points whose game (x, z)
\* positions are collinear, called directly, through
\* calculate_affine_transform or through the local interpolation, returns an
\* error and never a transform.
C23_CollinearIsError ==
    ( /\ applied # None
      /\ applied[1].op \in {"calculate_basic_transform", "calculate_affine_transform"}
      /\ basic_fit_points(applied[1]) # None
      /\ Len(basic_fit_points(applied[1])[1]) >= 3
      /\ collinear(basic_fit_points(applied[1])[1]) )
        => "error" \in DOMAIN applied[1].result

\* the basic fit of test_points applied to test_pos
test_scenario ==
    /\ applied # None
    /\ applied[1].op = "transform"
    /\ applied[1].fitted_by = "calculate_basic_transform"
    /\ applied[1].points = test_points
    /\ applied[1].game_pos = test_pos

\* C24 (as claimed): the basic fit of game(100,0,200)->map(500,300),
\* game(150,0,250)->map(600,400), game(200,0,200)->map(700,300) maps
\* game(125,0,225) to map (600, 350).
C24_ScenarioAsClaimed ==
    test_scenario
        => /\ applied[1].result.x = 600 * applied[1].result.den
           /\ applied[1].result.y = 350 * applied[1].result.den

\* C24 (amended): the basic fit of those three points maps game(125,0,225)
\* to map (550, 350).
C24_ScenarioMidpoint ==
    test_scenario
        => /\ applied[1].result.x = 550 * applied[1].result.den
           /\ applied[1].result.y = 350 * applied[1].result.den

C24_Witness == test_scenario /\ applied[1].result.den > 0

(***************************************************************************)
(* models.py: Region.contains_point called on its own, for every polygon   *)
(* of up to MaxVertices vertices on a 3 x 3 lattice and points in and      *)
(* around it.  One call per behaviour: the function keeps no state.        *)
(***************************************************************************)
\* most boundary points of a polygon
MaxVertices == 4

LatticeVertices == {<<x, y>> : x, y \in {0, 2, 4}}
Polygons == UNION {[1..n -> LatticeVertices] : n \in 0..MaxVertices}
\* points on and off the lattice, inside and outside its square
ProbePoints == {MapPos(x, y) : x, y \in -1..5}

\* Region(points).contains_point(map_x, map_y)
ContainsPoint(points, p) ==
    /\ applied = None
    /\ applied' = Some([op |-> "contains_point", points |-> points, map_pos |-> p,
                        result |-> contains_point(points, p)])
    /\ UNCHANGED <<maps, transform_cache, shot, pc, call, validation, hist>>

NextContains ==
    /\ applied = None
    /\ \E points \in Polygons, p \in ProbePoints : ContainsPoint(points, p)

SpecContains == InitFit /\ [][NextContains]_vars

\* the point lies strictly outside the axis-aligned bounding box of the
\* boundary points
outside_bounding_box(points, p) ==
    \/ \A i \in 1..Len(points) : p.x < p.den * points[i][1]
    \/ \A i \in 1..Len(points) : p.x > p.den * points[i][1]
    \/ \A i \in 1..Len(points) : p.y < p.den * points[i][2]
    \/ \A i \in 1..Len(points) : p.y > p.den * points[i][2]

\* C25: Region.contains_point is false for every point when the region has
\* fewer than 3 boundary points, and false for every point strictly outside
\* the bounding box of the boundary points.
C25_OutsideIsFalse ==
    ( /\ applied # None
      /\ applied[1].op = "contains_point"
      /\ \/ Len(applied[1].points) < 3
         \/ outside_bounding_box(applied[1].points, applied[1].map_pos) )
        => ~applied[1].result

\* a point right of a triangle with a vertical edge, at a height the edge
\* spans
C25_Witness ==
    /\ applied # None
    /\ applied[1].op = "contains_point"
    /\ applied[1].points = <<<<0, 0>>, <<4, 0>>, <<4, 4>>>>
    /\ applied[1].map_pos = MapPos(5, 2)
    /\ ~applied[1].result

(***************************************************************************)
(* screen_filter/value_mapper.py: ValueMapper.  Python floats are modelled *)
(* as exact fractions num/den (den > 0, lowest terms), so a conversion is  *)
(* the arithmetic the code writes, without the rounding of the float type. *)
(***************************************************************************)
Rat(n, d) ==
    LET g == Gcd(n, d)
    IN  [num |-> n \div g, den |-> d \div g]

RatSub(a, b) == Rat(a.num * b.den - b.num * a.den, a.den * b.den)
RatAdd(a, b) == Rat(a.num * b.den + b.num * a.den, a.den * b.den)
RatMul(a, b) == Rat(a.num * b.num, a.den * b.den)
\* a / b for b # 0
RatDiv(a, b) ==
    IF b.num > 0 THEN Rat(a.num * b.den, a.den * b.num)
    ELSE Rat(-(a.num * b.den), a.den * (-b.num))
RatLess(a, b) == a.num * b.den < b.num * a.den
RatAbs(a) == [num |-> Abs(a.num), den |-> a.den]

\* Python's max(a, b) and min(a, b): the first argument unless the second
\* is strictly larger (smaller)
RatMax(a, b) == IF RatLess(a, b) THEN b ELSE a
RatMin(a, b) == IF RatLess(b, a) THEN b ELSE a

\* ValueMapper._clamp
clamp(value, min_val, max_val) == RatMax(min_val, RatMin(max_val, value))

BRIGHTNESS_UI_RANGE == <<Rat(-100, 1), Rat(100, 1)>>
GAMMA_UI_RANGE == <<Rat(1, 2), Rat(3, 1)>>
CONTRAST_UI_RANGE == <<Rat(-50, 1), Rat(50, 1)>>
RGB_UI_RANGE == <<Rat(0, 1), Rat(255, 1)>>
BRIGHTNESS_ALGO_RANGE == <<Rat(-1, 2), Rat(1, 2)>>
CONTRAST_ALGO_RANGE == <<Rat(-1, 2), Rat(1, 2)>>

\* the linear interpolation of ui_to_algo_brightness, ui_to_algo_contrast,
\* algo_to_ui_brightness and algo_to_ui_contrast: from the range `from` to
\* the range `to`, then clamped to `to`
interpolate(value, from, to) ==
    clamp(RatAdd(to[1], RatMul(RatDiv(RatSub(value, from[1]), RatSub(from[2], from[1])),
                               RatSub(to[2], to[1]))),
          to[1], to[2])

ui_to_algo_brightness(ui_value) ==
    interpolate(ui_value, BRIGHTNESS_UI_RANGE, BRIGHTNESS_ALGO_RANGE)
algo_to_ui_brightness(algo_value) ==
    interpolate(algo_value, BRIGHTNESS_ALGO_RANGE, BRIGHTNESS_UI_RANGE)

ui_to_algo_gamma(ui_value) == clamp(ui_value, GAMMA_UI_RANGE[1], GAMMA_UI_RANGE[2])
algo_to_ui_gamma(algo_value) == clamp(algo_value, GAMMA_UI_RANGE[1], GAMMA_UI_RANGE[2])

ui_to_algo_contrast(ui_value) ==
    interpolate(ui_value, CONTRAST_UI_RANGE, CONTRAST_ALGO_RANGE)
algo_to_ui_contrast(algo_value) ==
    interpolate(algo_value, CONTRAST_ALGO_RANGE, CONTRAST_UI_RANGE)

ui_to_algo_rgb(ui_value) == clamp(RatDiv(ui_value, RGB_UI_RANGE[2]), Rat(0, 1), Rat(1, 1))

\* a variant that scales by 256 where the source scales by max_ui = 255
algo_to_ui_rgb_scaled_by_256(algo_value) ==
    clamp(RatMul(algo_value, Rat(256, 1)), RGB_UI_RANGE[1], RGB_UI_RANGE[2])

algo_to_ui_rgb(algo_value) ==
    clamp(RatMul(algo_value, RGB_UI_RANGE[2]), RGB_UI_RANGE[1], RGB_UI_RANGE[2])

Parameters == {"brightness", "gamma", "contrast", "rgb"}

ui_range(parameter) ==
    CASE parameter = "brightness" -> BRIGHTNESS_UI_RANGE
      [] parameter = "gamma" -> GAMMA_UI_RANGE
      [] parameter = "contrast" -> CONTRAST_UI_RANGE
      [] parameter = "rgb" -> RGB_UI_RANGE

ui_to_algo(parameter, ui_value) ==
    CASE parameter = "brightness" -> ui_to_algo_brightness(ui_value)
      [] parameter = "gamma" -> ui_to_algo_gamma(ui_value)
      [] parameter = "contrast" -> ui_to_algo_contrast(ui_value)
      [] parameter = "rgb" -> ui_to_algo_rgb(ui_value)

algo_to_ui(parameter, algo_value) ==
    CASE parameter = "brightness" -> algo_to_ui_brightness(algo_value)
      [] parameter = "gamma" -> algo_to_ui_gamma(algo_value)
      [] parameter = "contrast" -> algo_to_ui_contrast(algo_value)
      [] parameter = "rgb" -> algo_to_ui_rgb(algo_value)

\* UI values are taken in steps of 1/UiSteps across and just beyond each
\* UI range
UiSteps == 4

UiValues(parameter) ==
    {Rat(k, UiSteps) :
        k \in (ui_range(parameter)[1].num * UiSteps) \div ui_range(parameter)[1].den - 2
              .. (ui_range(parameter)[2].num * UiSteps) \div ui_range(parameter)[2].den + 2}

in_ui_range(parameter, v) ==
    /\ ~RatLess(v, ui_range(parameter)[1])
    /\ ~RatLess(ui_range(parameter)[2], v)

\* algo_val = ValueMapper.ui_to_algo_<parameter>(ui_val)
UiToAlgo(parameter, ui_val) ==
    /\ applied' = Some([op |-> "ui_to_algo", parameter |-> parameter,
                        ui_val |-> ui_val,
                        algo_val |-> ui_to_algo(parameter, ui_val)])
    /\ UNCHANGED <<maps, transform_cache, shot, pc, call, validation, hist>>

\* back_to_ui = ValueMapper.algo_to_ui_<parameter>(algo_val)
AlgoToUi ==
    /\ applied # None
    /\ applied[1].op = "ui_to_algo"
    /\ applied' = Some([op |-> "algo_to_ui", parameter |-> applied[1].parameter,
                        ui_val |-> applied[1].ui_val,
                        algo_val |-> applied[1].algo_val,
                        back_to_ui |-> algo_to_ui(applied[1].parameter,
                                                  applied[1].algo_val)])
    /\ UNCHANGED <<maps, transform_cache, shot, pc, call, validation, hist>>

NextMapper ==
    \/ /\ applied = None
       /\ \E parameter \in Parameters : \E ui_val \in UiValues(parameter) :
              UiToAlgo(parameter, ui_val)
    \/ AlgoToUi

SpecMapper == InitFit /\ [][NextMapper]_vars

\* the tolerance test_round_trip_conversion allows
tolerance(parameter) == IF parameter = "gamma" THEN Rat(1, 100) ELSE Rat(1, 10)

\* C26: for every UI value inside its UI range, ui_to_algo followed by
\* algo_to_ui gives the UI value back, within 0.1 for brightness, contrast
\* and RGB and within 0.01 for gamma.
C26_RoundTrip ==
    ( /\ applied # None
      /\ applied[1].op = "algo_to_ui"
      /\ in_ui_range(applied[1].parameter, applied[1].ui_val) )
        => RatLess(RatAbs(RatSub(applied[1].ui_val, applied[1].back_to_ui)),
                   tolerance(applied[1].parameter))

\* the round trip of an RGB value that is no multiple of 255's divisors
C26_Witness ==
    /\ applied # None
    /\ applied[1].op = "algo_to_ui"
    /\ applied[1].parameter = "rgb"
    /\ applied[1].ui_val = Rat(64, 1)
    /\ applied[1].algo_val = Rat(64, 255)
    /\ applied[1].back_to_ui = Rat(64, 1)

\* C27 (as claimed): once invalidate_transform has returned for a (map,
\* layer) pair whose calibration points were edited, the cache holds no
\* entry for that pair computed from the points before the edit: every
\* entry of the pair is what calculate_transform gives for the layer's
\* current points at a position of the entry's grid cell.
C27_NoStaleEntryAfterInvalidate ==
    \A i \in 1..Len(transform_cache) :
        <<transform_cache[i].key[1], transform_cache[i].key[2]>> \in hist.settled
            => \E p \in CachePositions :
                   /\ cache_key(transform_cache[i].key[1], transform_cache[i].key[2],
                                Some(p)) = transform_cache[i].key
                   /\ calculate_transform(maps, transform_cache[i].key[1],
                                          transform_cache[i].key[2], Some(p))
                          = Some(transform_cache[i].value)

\* C28 (as claimed): in every state reachable through set_layer_region,
\* clear_layer_region, bind_layer_to_region, unbind_layer_region,
\* delete_layer and swap_base_map, every layer whose region_owner_layer_id
\* is set has an effective region: the owner exists in the same map and
\* holds a region.
C28_ReferenceHasEffectiveRegion ==
    \A i \in 1..Len(edited_layers) :
        edited_layers[i].region_owner_layer_id # None
            => /\ get_effective_region(edited_layers[i], edited_layers) # None
               /\ \E j \in 1..Len(edited_layers) :
                      /\ edited_layers[j].layer_id = edited_layers[i].region_owner_layer_id[1]
                      /\ edited_layers[j].region # None

(***************************************************************************)
(* config_manager.py: a layer written to the dictionary that save_config   *)
(* stores, and read back from it.  The dictionary is a record; a key that  *)
(* is not written is not in its domain.  name, image_path, rotation_offset *)
(* and the points' timestamps are copied both ways and left out.           *)
(***************************************************************************)
serialize_region(region) == [points |-> region]

deserialize_region(data) ==
    IF "points" \in DOMAIN data THEN data.points ELSE <<>>

serialize_calibration_point(point) ==
    [game_pos |-> [x |-> point.game_pos.x, y |-> point.game_pos.y, z |-> point.game_pos.z],
     map_x |-> point.map_x, map_y |-> point.map_y]

deserialize_calibration_point(data) ==
    CalibrationPoint(data.game_pos.x, data.game_pos.y, data.game_pos.z,
                     data.map_x, data.map_y)

\* the region is written for a region owner only
serialize_layer(layer) ==
    LET result == [layer_id |-> layer.layer_id,
                   height_min |-> layer.height_min,
                   height_max |-> layer.height_max,
                   is_base_map |-> layer.is_base_map,
                   region_owner_layer_id |-> layer.region_owner_layer_id,
                   calibration_points |->
                       [i \in 1..Len(layer.calibration_points) |->
                           serialize_calibration_point(layer.calibration_points[i])]]
    IN  IF is_region_owner(layer)
        THEN result @@ [region |-> serialize_region(layer.region[1])]
        ELSE result

\* the region is read only when region_owner_layer_id is absent or None
deserialize_layer(data) ==
    LET is_base_map == IF "is_base_map" \in DOMAIN data
                       THEN data.is_base_map ELSE data.layer_id = 0
        region_owner_layer_id == IF "region_owner_layer_id" \in DOMAIN data
                                 THEN data.region_owner_layer_id ELSE None
        region == IF region_owner_layer_id = None /\ "region" \in DOMAIN data
                  THEN Some(deserialize_region(data.region))
                  ELSE None
    IN  MapLayer(data.layer_id, data.height_min, data.height_max,
                 [i \in 1..Len(data.calibration_points) |->
                     deserialize_calibration_point(data.calibration_points[i])],
                 is_base_map, region, region_owner_layer_id)

\* C30 (as claimed): for every layer reachable through the mutators,
\* _deserialize_layer of _serialize_layer yields a layer with the same
\* layer_id, height range, is_base_map flag, region_owner_layer_id, region
\* point sequence and calibration points.
C30_LayerRoundTrip ==
    \A i \in 1..Len(edited_layers) :
        LET layer == edited_layers[i]
            loaded == deserialize_layer(serialize_layer(layer))
        IN  /\ loaded.layer_id = layer.layer_id
            /\ loaded.height_min = layer.height_min
            /\ loaded.height_max = layer.height_max
            /\ loaded.is_base_map = layer.is_base_map
            /\ loaded.region_owner_layer_id = layer.region_owner_layer_id
            /\ loaded.region = layer.region
            /\ loaded.calibration_points = layer.calibration_points

(***************************************************************************)
(* coordinate_transform.py: _calculate_ransac_transform, one iteration of  *)
(* its loop per step.                                                      *)
(***************************************************************************)
\* the line p*x + q*z + r = 0 through the game positions of collinear
\* points of which two are distinct, in lowest terms
line_through(points) ==
    LET n == Len(points)
        j == Min({i \in 2..n : points[i].game_pos.x # points[1].game_pos.x
                               \/ points[i].game_pos.z # points[1].game_pos.z})
        p == points[j].game_pos.z - points[1].game_pos.z
        q == points[1].game_pos.x - points[j].game_pos.x
        r == -(p * points[1].game_pos.x + q * points[1].game_pos.z)
        g == Gcd(p, Gcd(q, Abs(r)))
    IN  <<p \div g, q \div g, r \div g>>

\* the minimum-norm solution from one least-squares solution: <<A0, B0, C0>>
\* / D0 solves the map_x direction, <<A1, B1, C1>> / D0 the map_y direction,
\* v spans the null space of the design matrix and vv is v.v; each solution
\* loses its component along v
minimum_norm(A0, B0, C0, A1, B1, C1, D0, v, vv) ==
    reduced_transform(A0 * vv - (A0 * v[1] + B0 * v[2] + C0 * v[3]) * v[1],
                      B0 * vv - (A0 * v[1] + B0 * v[2] + C0 * v[3]) * v[2],
                      C0 * vv - (A0 * v[1] + B0 * v[2] + C0 * v[3]) * v[3],
                      A1 * vv - (A1 * v[1] + B1 * v[2] + C1 * v[3]) * v[1],
                      B1 * vv - (A1 * v[1] + B1 * v[2] + C1 * v[3]) * v[2],
                      C1 * vv - (A1 * v[1] + B1 * v[2] + C1 * v[3]) * v[3],
                      D0 * vv)

\* np.linalg.lstsq for collinear game positions (two of them distinct): the
\* design matrix has rank 2, a least-squares solution is the regression of
\* the map coordinates on the game coordinate T that varies along the line
\* (on_x: T is x, else z), and lstsq returns the solution of minimum norm
lstsq_minimum_norm(points, T, U, V, on_x, v) ==
    LET n == Len(points)
        St == SumSeq(T)
        Stt == SumSeq([i \in 1..n |-> T[i] * T[i]])
        Su == SumSeq(U)
        Sv == SumSeq(V)
        Stu == SumSeq([i \in 1..n |-> T[i] * U[i]])
        Stv == SumSeq([i \in 1..n |-> T[i] * V[i]])
    IN  minimum_norm(IF on_x THEN n * Stu - St * Su ELSE 0,
                     IF on_x THEN 0 ELSE n * Stu - St * Su,
                     Stt * Su - St * Stu,
                     IF on_x THEN n * Stv - St * Sv ELSE 0,
                     IF on_x THEN 0 ELSE n * Stv - St * Sv,
                     Stt * Sv - St * Stv,
                     n * Stt - St * St,
                     v, v[1] * v[1] + v[2] * v[2] + v[3] * v[3])

\* _calculate_basic_transform(sample_points) with the coefficients of the
\* rank-deficient case computed
sample_transform(sample_points) ==
    LET t == calculate_basic_transform(sample_points)
        n == Len(sample_points)
        on_x == \E i \in 2..n : sample_points[i].game_pos.x # sample_points[1].game_pos.x
    IN  IF "a" \in DOMAIN t THEN t
        ELSE lstsq_minimum_norm(sample_points,
                 [i \in 1..n |-> IF on_x THEN sample_points[i].game_pos.x
                                 ELSE sample_points[i].game_pos.z],
                 [i \in 1..n |-> sample_points[i].map_x],
                 [i \in 1..n |-> sample_points[i].map_y],
                 on_x, line_through(sample_points))

inlier_threshold == 10

\* error < inlier_threshold, for the prediction <<x, y>> / den
error_below(predicted, point, threshold) ==
    LET dx == predicted.x - point.map_x * predicted.den
        dy == predicted.y - point.map_y * predicted.den
        bound == threshold * predicted.den
    IN  /\ Abs(dx) < bound
        /\ Abs(dy) < bound
        /\ dx * dx + dy * dy < bound * bound

\* the indices of the points whose error under the candidate is below the
\* threshold (the list the loop builds, in ascending order)
find_inliers(candidate_transform, points, threshold) ==
    {i \in 1..Len(points) :
        error_below(transform(candidate_transform, points[i].game_pos), points[i],
                    threshold)}

\* [points[i] for i in indices], indices ascending, from index i on
RECURSIVE select_points(_, _, _)
select_points(points, indices, i) ==
    IF i > Len(points) THEN <<>>
    ELSE (IF i \in indices THEN <<points[i]>> ELSE <<>>)
         \o select_points(points, indices, i + 1)

\* lines 225-240: the refit from the best inliers, or the fallback
ransac_result(points, best_inliers) ==
    IF best_inliers # {} /\ Cardinality(best_inliers) >= 3
    THEN LET inlier_points == select_points(points, best_inliers, 1)
         IN  IF Len(inlier_points) <= 6
             THEN calculate_basic_transform(inlier_points)
             ELSE calculate_weighted_transform(inlier_points)
    ELSE calculate_weighted_transform(points)

\* most iterations a call is given (max_iterations is a parameter; its
\* default is 500)
MaxIterations == 3

\* calibration points of the map u = 2x + 1, v = 2z + 3; the points at
\* (0, 4), (1, 3) and (4, 0) lie on one line
OnMap(x, z) == CalibrationPoint(x, 0, z, 2 * x + 1, 2 * z + 3)
\* a point 40 pixels off that map
OffMap(x, z, mx, my) == CalibrationPoint(x, 0, z, mx, my)

RansacInputs ==
    { \* seven points of the map
      << OnMap(0, 0), OnMap(4, 0), OnMap(0, 4), OnMap(2, 1), OnMap(1, 3),
         OnMap(3, 5), OnMap(5, 5) >>,
      \* four points of the map and two outliers
      << OnMap(0, 0), OffMap(4, 4, 49, 11), OnMap(4, 0), OnMap(0, 4),
         OffMap(2, 3, 5, 49), OnMap(2, 1) >>,
      \* three points of the map and one outlier
      << OffMap(4, 4, 49, 11), OnMap(0, 0), OnMap(4, 0), OnMap(2, 1) >>,
      \* four points on the line z = 0 with scattered map positions
      << OffMap(0, 0, 0, 0), OffMap(1, 0, 100, 0), OffMap(2, 0, 0, 100),
         OffMap(3, 0, 100, 100) >> }

\* random.sample(range(n), 3): three distinct indices; the fit of three
\* points does not depend on their order
Samples(n) == {S \in SUBSET (1..n) : Cardinality(S) = 3}

\* _calculate_ransac_transform(points, max_iterations): lines 186-189.
\* models is the observation of the loop: per iteration done, the inliers
\* of its model, or None when the sample fit raised.
CalculateRansacTransform(points, max_iterations) ==
    /\ applied = None
    /\ applied' = Some([op |-> "calculate_ransac_transform",
                        points |-> points,
                        max_iterations |-> max_iterations,
                        iteration |-> 0,
                        best_transform |-> None,
                        best_inliers |-> {},
                        best_score |-> 0,
                        models |-> <<>>,
                        result |-> None])
    /\ UNCHANGED <<maps, transform_cache, shot, pc, call, validation, hist>>

in_ransac_loop ==
    /\ applied # None
    /\ applied[1].op = "calculate_ransac_transform"
    /\ applied[1].result = None
    /\ applied[1].iteration < applied[1].max_iterations

\* a variant that takes a later model with as many inliers as the best
ransac_update_on_ties(state, candidate_transform, inliers) ==
    IF Cardinality(inliers) >= state.best_score
    THEN [state EXCEPT !.best_score = Cardinality(inliers),
                       !.best_inliers = inliers,
                       !.best_transform = Some(candidate_transform)]
    ELSE state

\* lines 217-220: the best model so far changes for a higher score only
ransac_update(state, candidate_transform, inliers) ==
    IF Cardinality(inliers) > state.best_score
    THEN [state EXCEPT !.best_score = Cardinality(inliers),
                       !.best_inliers = inliers,
                       !.best_transform = Some(candidate_transform)]
    ELSE state

\* one iteration, lines 194-220, for the sample drawn
ransac_iteration(state, sample_indices) ==
    LET candidate_transform ==
            sample_transform(select_points(state.points, sample_indices, 1))
        inliers == find_inliers(candidate_transform, state.points, inlier_threshold)
    IN  [ransac_update(state, candidate_transform, inliers)
            EXCEPT !.iteration = @ + 1, !.models = Append(@, Some(inliers))]

RansacIteration(sample_indices) ==
    /\ in_ransac_loop
    /\ applied' = Some(ransac_iteration(applied[1], sample_indices))
    /\ UNCHANGED <<maps, transform_cache, shot, pc, call, validation, hist>>

\* one iteration whose sample fit raises (np.linalg.lstsq raises
\* LinAlgError when its computation does not converge): lines 222-223
RansacIterationRaises ==
    /\ in_ransac_loop
    /\ applied' = Some([applied[1] EXCEPT !.iteration = @ + 1,
                                          !.models = Append(@, None)])
    /\ UNCHANGED <<maps, transform_cache, shot, pc, call, validation, hist>>

\* after the loop: lines 225-240
RansacReturn ==
    /\ applied # None
    /\ applied[1].op = "calculate_ransac_transform"
    /\ applied[1].result = None
    /\ applied[1].iteration = applied[1].max_iterations
    /\ applied' = Some([applied[1] EXCEPT !.result =
                           Some(ransac_result(applied[1].points,
                                              applied[1].best_inliers))])
    /\ UNCHANGED <<maps, transform_cache, shot, pc, call, validation, hist>>

NextRansac ==
    \/ /\ applied = None
       /\ \E points \in RansacInputs, max_iterations \in 1..MaxIterations :
              CalculateRansacTransform(points, max_iterations)
    \/ /\ in_ransac_loop
       /\ \E sample_indices \in Samples(Len(applied[1].points)) :
              RansacIteration(sample_indices)
    \/ RansacIterationRaises
    \/ RansacReturn

SpecRansac == InitFit /\ [][NextRansac]_vars

\* the iterations that produced a model, and the inliers of iteration i
produced_models(models) == {i \in 1..Len(models) : models[i] # None}
inlier_count(models, i) == Cardinality(models[i][1])

\* the earliest iteration among those with the most inliers
best_iteration(models) ==
    Min({i \in produced_models(models) :
            \A j \in produced_models(models) :
                inlier_count(models, j) <= inlier_count(models, i)})

ransac_returned ==
    /\ applied # None
    /\ applied[1].op = "calculate_ransac_transform"
    /\ applied[1].result # None

\* what the call returns according to the iterations it made
ransac_expected(points, models) ==
    IF \E i \in produced_models(models) : inlier_count(models, i) >= 3
    THEN LET refit_points == select_points(points, models[best_iteration(models)][1], 1)
         IN  IF Len(refit_points) <= 6
             THEN calculate_basic_transform(refit_points)
             ELSE calculate_weighted_transform(refit_points)
    ELSE calculate_weighted_transform(points)

ransac_running ==
    /\ applied # None
    /\ applied[1].op = "calculate_ransac_transform"
    /\ applied[1].result = None

\* C29: a call of the RANSAC fit makes max_iterations iterations and no
\* more, those whose sample fit raised included, and returns after the last
\* one; it refits from the inliers of the earliest iteration with the most
\* inliers among the iterations that produced a model, with the basic fit
\* for 3 to 6 inliers and the weighted fit for more; when no iteration
\* produced 3 inliers or more it returns the weighted fit of all the points.
C29_RansacResult ==
    /\ ransac_running
          => /\ applied[1].iteration = Len(applied[1].models)
             /\ applied[1].iteration <= applied[1].max_iterations
    /\ ransac_returned
          => /\ Len(applied[1].models) = applied[1].max_iterations
             /\ applied[1].result
                    = Some(ransac_expected(applied[1].points, applied[1].models))

\* a call that skipped an iteration, saw two models with the most inliers
\* and refitted from at least 3 inliers
C29_Witness ==
    /\ ransac_returned
    /\ \E i \in 1..Len(applied[1].models) : applied[1].models[i] = None
    /\ \E i, j \in produced_models(applied[1].models) :
           /\ i < j
           /\ inlier_count(applied[1].models, i) = inlier_count(applied[1].models, j)
           /\ applied[1].models[i] # applied[1].models[j]
           /\ inlier_count(applied[1].models, i) >= 3
           /\ best_iteration(applied[1].models) = i

====
